---- MODULE Spec2Model ----
(***************************************************************************)
(* A model of mini-redis: the shared database (src/src/db.rs) with its     *)
(* expiration worker, the pub/sub fan-out (src/src/db.rs,                  *)
(* src/src/cmd/subscribe.rs, src/src/cmd/publish.rs) and the listener and  *)
(* connection handlers with graceful shutdown (src/src/server.rs,          *)
(* src/src/shutdown.rs).                                                   *)
(*                                                                         *)
(* Every Db operation runs under the single std Mutex of Shared::state, so *)
(* each critical section is one atomic action.  What the code does after   *)
(* releasing the lock (notify_one in Db::set) is a separate action.        *)
(***************************************************************************)
EXTENDS Integers, Sequences, FiniteSets, TLC

(***************************************************************************)
(* Bounds of the model.                                                    *)
(***************************************************************************)
\* Instants are 0..MaxTime (tokio::time::Instant, monotonic).
MaxTime == 2
\* Number of Db::set calls in a behaviour (next_id never passes it).
MaxSets == 3

\* Frames a handler reads from its connection in a behaviour.
MaxFrames == 2
\* Capacity of a pub/sub broadcast channel (db.rs 226 sets 1024; the model
\* scales it down so that a subscriber can fall a whole buffer behind).
ChannelCapacity == 1
\* Permits of the connection semaphore (server.rs 128 sets 250; scaled down).
MAX_CONNECTIONS == 3
\* Connections that arrive at the listener in a behaviour.
MaxHandlers == 4
MaxAccepts == 2

Handlers == 1 .. MaxHandlers
ChannelNames == {"a", "b"}
Payloads == {"m1", "m2"}
\* channel lists of the SUBSCRIBE and UNSUBSCRIBE frames that clients send
SubscribeLists == {<< "a" >>}
UnsubscribeLists == {<< >>, << "a" >>}

Keys == {"k1", "k2"}
Values == {"v1", "v2"}

\* Option<T>: None is the empty sequence, Some(x) the one-element sequence.
None == << >>
Some(x) == << x >>

\* Option<Duration> arguments of Db::set.
Durations == {None, Some(0), Some(1), Some(2)}

VARIABLES
    \* State (src/src/db.rs 43-78)
    entries,        \* HashMap<String, Entry>: function, DOMAIN \subseteq Keys
    expirations,    \* BTreeMap<(Instant, u64), String>: function on pairs
    next_id,        \* u64
    shutdown,       \* bool
    \* Shared::background_task, a tokio Notify: TRUE when a permit is stored
    background_task,
    \* Instant::now()
    now,
    \* purge_expired_tasks: position of the worker and the instant it sleeps to
    worker_pc,
    worker_when,
    \* Db::set calls that released the lock with notify = true and have not
    \* yet called notify_one (db.rs 188-195)
    pending_notify,
    \* the frame Get::apply wrote last: <<key, frame>>
    get_reply,
    \* history: per key, the value of the latest Db::set applied to it
    applied,
    \* Shared::state (db.rs 34), the std::sync::Mutex around State: None, or
    \* Some(task) while that task holds the MutexGuard.  An action that locks,
    \* works and unlocks in one step leaves it None.
    mutex

VARIABLES
    \* State::pub_sub (db.rs 53): channel name -> broadcast::Sender, whose
    \* shared state is [buffer, pos, rx_cnt]
    pub_sub,
    \* Handler (server.rs 74-115) with the locals of Subscribe::apply, one
    \* record per connection:
    \*   pc             position of the handler task
    \*   wnext          where it continues when the frame being written is out
    \*   out            the frame written last to the connection
    \*   subscriptions  StreamMap<String, Messages>: sequence of [key, next]
    \*   new_rx         receiver returned by db.subscribe, not yet in the map
    \*   channels       Subscribe::channels still to subscribe
    \*   unsub          Unsubscribe::channels still to remove
    \*   frames         number of frames read so far
    \*   err            the Err Handler::run returned, logged at server.rs 290
    \*   budget         bound of the model: the frames the peer sends at most
    \*   shutdown       Shutdown::shutdown
    \*   last_pos       history: channel -> position of the last message pushed
    \*   skipped        history: channel -> number of messages a lagging
    \*                  receiver of this connection has skipped
    \*   requested      history: the channels of the SUBSCRIBE read last
    \*   acked          history: the acknowledgments written for it so far
    \*   unrequested    history: Some(channels named) when the frame read last
    \*                  is an UNSUBSCRIBE, None otherwise
    \*   unheld         history: the channels held when that frame was read
    \*   unacked        history: the acknowledgments written for it so far
    \*   client         the peer as a client: cmd, the command built last;
    \*                  frame, its into_frame on the way; parsed, what
    \*                  Command::from_frame made of it; n, commands sent
    \*   call           Some(the Db function Command::apply is inside, with
    \*                  its arguments), where the mutex is modelled step by step
    \*   wire           the bytes of the socket and the peer's Connection:
    \*                    w         position of the writing side
    \*                    sent      Some(frame given to write_frame)
    \*                    stream    bytes flushed and not yet read by the peer
    \*                    r         position of the peer in read_frame
    \*                    buffer    Connection::buffer of the peer
    \*                    received  the frames read_frame returned to the peer
    handlers,
    \* run and Listener (server.rs 138-330)
    run_pc,
    listener_pc,
    backoff,
    permits,            \* Semaphore limit_connections
    notify_shutdown,    \* TRUE while the broadcast::Sender<()> is alive
    tx_count,           \* live mpsc::Sender<()> clones of shutdown_complete_tx
    db_strong,          \* Arc::strong_count(&shared)
    accepted            \* connections accepted so far

psvars == << pub_sub >>
hvars == << handlers >>
srvvars == << run_pc, listener_pc, backoff, permits, notify_shutdown, tx_count,
              db_strong, accepted >>

dbvars == << entries, expirations, next_id, shutdown, background_task, now,
             worker_pc, worker_when, pending_notify, get_reply, applied, mutex >>

vars == << dbvars, psvars, hvars, srvvars >>

(***************************************************************************)
(* HashMap and BTreeMap helpers.                                           *)
(***************************************************************************)
map_insert(m, k, v) == [x \in DOMAIN m \cup {k} |-> IF x = k THEN v ELSE m[x]]
map_remove(m, k) == [x \in DOMAIN m \ {k} |-> m[x]]
EmptyMap == [x \in {} |-> 0]

\* Ord for (Instant, u64): lexicographic.
pair_less(a, b) == \/ a[1] < b[1]
                   \/ a[1] = b[1] /\ a[2] < b[2]

\* BTreeMap::iter().next() / keys().next(): the smallest key.
first_key(m) == CHOOSE a \in DOMAIN m : \A b \in DOMAIN m : a = b \/ pair_less(a, b)

\* State::next_expiration (db.rs 333-338)
next_expiration(exp) == IF DOMAIN exp = {} THEN None ELSE Some(first_key(exp)[1])

(***************************************************************************)
(* Db::set (db.rs 131-196)                                                 *)
(***************************************************************************)
\* db.rs 155-158: notify iff no expiration exists or the earliest is later
set_notify_mut(exp, when) == FALSE
set_notify_ge_mut(exp, when) ==
    IF next_expiration(exp) = None THEN TRUE ELSE next_expiration(exp)[1] >= when
set_notify(exp, when) ==
    IF next_expiration(exp) = None THEN TRUE ELSE next_expiration(exp)[1] > when

\* db.rs 178-182: drop the expiration row of the entry that was replaced
set_remove_prev_mut(exp, prev) == exp
set_remove_prev_first_mut(exp, prev) ==
    IF prev # None /\ prev[1].expires_at # None
    THEN map_remove(exp, first_key(exp))
    ELSE exp
set_remove_prev(exp, prev) ==
    IF prev # None /\ prev[1].expires_at # None
    THEN map_remove(exp, << prev[1].expires_at[1], prev[1].id >>)
    ELSE exp

\* db.rs 166-173: HashMap::insert replaces the entry stored under key
set_insert_mut(ents, key, entry) ==
    IF key \in DOMAIN ents THEN ents ELSE map_insert(ents, key, entry)
set_insert(ents, key, entry) == map_insert(ents, key, entry)

db_set(key, value, expire) ==
    /\ ~shutdown
    /\ next_id < MaxSets
    /\ expire # None => now + expire[1] <= MaxTime
    /\ LET id == next_id
           when == now + expire[1]
           notify == IF expire = None THEN FALSE ELSE set_notify(expirations, when)
           exp1 == IF expire = None THEN expirations
                   ELSE map_insert(expirations, << when, id >>, key)
           expires_at == IF expire = None THEN None ELSE Some(when)
           prev == IF key \in DOMAIN entries THEN Some(entries[key]) ELSE None
       IN /\ next_id' = next_id + 1
          /\ entries' = set_insert(entries, key,
                           [id |-> id, data |-> value, expires_at |-> expires_at])
          /\ expirations' = set_remove_prev(exp1, prev)
          /\ pending_notify' = IF notify THEN pending_notify + 1 ELSE pending_notify
          /\ applied' = [applied EXCEPT ![key] = Some(value)]
    /\ mutex' = None
    /\ UNCHANGED << shutdown, background_task, now, worker_pc, worker_when, get_reply >>

set(key, value, expire) ==
    /\ db_set(key, value, expire)
    /\ UNCHANGED << psvars, hvars, srvvars >>

\* db.rs 190-195: notify_one after the lock is released
notify_one ==
    /\ pending_notify > 0
    /\ pending_notify' = pending_notify - 1
    /\ background_task' = TRUE
    /\ UNCHANGED mutex
    /\ UNCHANGED << entries, expirations, next_id, shutdown, now, worker_pc,
                    worker_when, get_reply, applied >>
    /\ UNCHANGED << psvars, hvars, srvvars >>

(***************************************************************************)
(* Db::get (db.rs 116-124) and Get::apply (cmd/get.rs 61-79)               *)
(***************************************************************************)
get_mut(key) == IF key \in DOMAIN entries /\ entries[key].expires_at = None
                THEN Some(entries[key].data) ELSE None
get(key) == IF key \in DOMAIN entries THEN Some(entries[key].data) ELSE None

Bulk(b) == [type |-> "Bulk", data |-> b]
Null == [type |-> "Null"]

get_apply(key) ==
    /\ ~shutdown
    /\ get_reply' = << key, IF get(key) # None THEN Bulk(get(key)[1]) ELSE Null >>
    /\ mutex' = None
    /\ UNCHANGED << entries, expirations, next_id, shutdown, background_task, now,
                    worker_pc, worker_when, pending_notify, applied >>
    /\ UNCHANGED << psvars, hvars, srvvars >>

(***************************************************************************)
(* Shared::purge_expired_keys (db.rs 285-320)                              *)
(***************************************************************************)
RECURSIVE purge_loop_mut(_, _, _)
purge_loop_mut(ents, exp, t) ==
    IF DOMAIN exp = {} THEN [entries |-> ents, expirations |-> exp, ret |-> None]
    ELSE LET k == first_key(exp) IN
         IF k[1] >= t
         THEN [entries |-> ents, expirations |-> exp, ret |-> Some(k[1])]
         ELSE purge_loop_mut(map_remove(ents, exp[k]), map_remove(exp, k), t)

RECURSIVE purge_loop(_, _, _)
purge_loop(ents, exp, t) ==
    IF DOMAIN exp = {} THEN [entries |-> ents, expirations |-> exp, ret |-> None]
    ELSE LET k == first_key(exp) IN
         IF k[1] > t
         THEN [entries |-> ents, expirations |-> exp, ret |-> Some(k[1])]
         ELSE purge_loop(map_remove(ents, exp[k]), map_remove(exp, k), t)

purge_expired_keys_mut(ents, exp, sd, t) ==
    IF sd THEN [entries |-> ents, expirations |-> exp, ret |-> None]
    ELSE LET r == purge_loop(ents, exp, t)
         IN IF r.ret = None THEN r
            ELSE [r EXCEPT !.ret =
                    Some(CHOOSE d \in {k[1] : k \in DOMAIN r.expirations} :
                            \A k \in DOMAIN r.expirations : k[1] <= d)]

purge_expired_keys(ents, exp, sd, t) ==
    IF sd THEN [entries |-> ents, expirations |-> exp, ret |-> None]
    ELSE purge_loop(ents, exp, t)

(***************************************************************************)
(* purge_expired_tasks (db.rs 347-371)                                     *)
(***************************************************************************)
\* the name under which the worker task holds the mutex
Worker == 0

\* db.rs 349: while !shared.is_shutdown()
worker_is_shutdown ==
    /\ worker_pc = "loop"
    /\ mutex \in {None, Some(Worker)}
    /\ mutex' = None
    /\ worker_pc' = IF shutdown THEN "done" ELSE "purge"
    /\ UNCHANGED << entries, expirations, next_id, shutdown, background_task, now,
                    worker_when, pending_notify, get_reply, applied >>
    /\ UNCHANGED << psvars, hvars, srvvars >>

\* db.rs 354: shared.purge_expired_keys(), then the worker starts to wait
worker_purge_mut ==
    /\ worker_pc = "purge"
    /\ mutex \in {None, Some(Worker)}
    /\ UNCHANGED mutex
    /\ LET r == purge_expired_keys(entries, expirations, shutdown, now)
       IN /\ entries' = r.entries
          /\ expirations' = r.expirations
          /\ worker_when' = r.ret
          /\ worker_pc' = IF r.ret # None THEN "select" ELSE "notified"
    /\ UNCHANGED << next_id, shutdown, background_task, now, pending_notify,
                    get_reply, applied >>
    /\ UNCHANGED << psvars, hvars, srvvars >>

worker_purge ==
    /\ worker_pc = "purge"
    /\ mutex \in {None, Some(Worker)}
    /\ mutex' = None
    /\ LET r == purge_expired_keys(entries, expirations, shutdown, now)
       IN /\ entries' = r.entries
          /\ expirations' = r.expirations
          /\ worker_when' = r.ret
          /\ worker_pc' = IF r.ret # None THEN "select" ELSE "notified"
    /\ UNCHANGED << next_id, shutdown, background_task, now, pending_notify,
                    get_reply, applied >>
    /\ UNCHANGED << psvars, hvars, srvvars >>

\* db.rs 361: time::sleep_until(when) completes
worker_sleep_until ==
    /\ worker_pc = "select"
    /\ now >= worker_when[1]
    /\ worker_pc' = "loop"
    /\ worker_when' = None
    /\ UNCHANGED mutex
    /\ UNCHANGED << entries, expirations, next_id, shutdown, background_task, now,
                    pending_notify, get_reply, applied >>
    /\ UNCHANGED << psvars, hvars, srvvars >>

\* db.rs 362, 368: background_task.notified() completes, consuming the permit
worker_notified ==
    /\ worker_pc \in {"select", "notified"}
    /\ background_task
    /\ background_task' = FALSE
    /\ worker_pc' = "loop"
    /\ worker_when' = None
    /\ UNCHANGED mutex
    /\ UNCHANGED << entries, expirations, next_id, shutdown, now, pending_notify,
                    get_reply, applied >>
    /\ UNCHANGED << psvars, hvars, srvvars >>

\* the monotonic clock advances
tick ==
    /\ now < MaxTime
    /\ now' = now + 1
    /\ UNCHANGED mutex
    /\ UNCHANGED << entries, expirations, next_id, shutdown, background_task,
                    worker_pc, worker_when, pending_notify, get_reply, applied >>
    /\ UNCHANGED << psvars, hvars, srvvars >>

(***************************************************************************)
(* Frames (frame.rs) written by the server                                 *)
(***************************************************************************)
Integer(n) == [type |-> "Integer", value |-> n]
Simple(t) == [type |-> "Simple", text |-> t]
Array(items) == [type |-> "Array", items |-> items]
NoFrame == [type |-> "none"]

\* subscribe.rs 264-288
make_subscribe_frame(channel_name, num_subs) ==
    Array(<< Bulk("subscribe"), Bulk(channel_name), Integer(num_subs) >>)
make_unsubscribe_frame(channel_name, num_subs) ==
    Array(<< Bulk("unsubscribe"), Bulk(channel_name), Integer(num_subs) >>)
make_message_frame(channel_name, msg) ==
    Array(<< Bulk("message"), Bulk(channel_name), Bulk(msg) >>)

(***************************************************************************)
(* tokio::sync::broadcast as Db uses it.  A channel keeps the last         *)
(* ChannelCapacity values; pos is the position the next value gets;        *)
(* rx_cnt counts the live receivers.  A receiver is its next position.     *)
(***************************************************************************)
\* broadcast::channel(1024) (db.rs 226): the sender and its first receiver
broadcast_channel == [buffer |-> << >>, pos |-> 0, rx_cnt |-> 1]

\* position of the oldest value the channel still holds
oldest(ch) == ch.pos - Len(ch.buffer)

\* Sender::send (db.rs 246): Err when there is no receiver, else the value is
\* stored, the oldest one is overwritten when the buffer is full, and the
\* number of receivers is returned
broadcast_send_mut(ch, value) ==
    [chan |-> [ch EXCEPT !.buffer = IF Len(ch.buffer) = ChannelCapacity
                                    THEN Append(Tail(ch.buffer), value)
                                    ELSE Append(ch.buffer, value),
                         !.pos = ch.pos + 1],
     ret |-> Some(ch.rx_cnt + 1)]
broadcast_send(ch, value) ==
    IF ch.rx_cnt = 0 THEN [chan |-> ch, ret |-> None]
    ELSE [chan |-> [ch EXCEPT !.buffer = IF Len(ch.buffer) = ChannelCapacity
                                         THEN Append(Tail(ch.buffer), value)
                                         ELSE Append(ch.buffer, value),
                              !.pos = ch.pos + 1],
          ret |-> Some(ch.rx_cnt)]

\* Drop for broadcast::Receiver
receiver_drop_last(ps, key) ==
    IF ps[key].rx_cnt = 1 THEN map_remove(ps, key) ELSE [ps EXCEPT ![key].rx_cnt = @ - 1]
receiver_drop(ps, key) == [ps EXCEPT ![key].rx_cnt = @ - 1]

(***************************************************************************)
(* Db::subscribe (db.rs 203-231) and Db::publish (db.rs 236-251)           *)
(***************************************************************************)
subscribe_mut(ps, key) ==
    IF key \in DOMAIN ps
    THEN [pub_sub |-> [ps EXCEPT ![key].rx_cnt = @ + 1],
          rx |-> [key |-> key, next |-> oldest(ps[key])]]
    ELSE [pub_sub |-> map_insert(ps, key, broadcast_channel),
          rx |-> [key |-> key, next |-> 0]]
subscribe(ps, key) ==
    IF key \in DOMAIN ps
    THEN [pub_sub |-> [ps EXCEPT ![key].rx_cnt = @ + 1],
          rx |-> [key |-> key, next |-> ps[key].pos]]
    ELSE [pub_sub |-> map_insert(ps, key, broadcast_channel),
          rx |-> [key |-> key, next |-> 0]]

publish_mut(ps, key, value) ==
    IF key \in DOMAIN ps
    THEN LET r == broadcast_send(ps[key], value)
         IN [pub_sub |-> [ps EXCEPT ![key] = r.chan],
             ret |-> IF r.ret # None THEN r.ret[1] ELSE 0]
    ELSE [pub_sub |-> map_insert(ps, key, [broadcast_channel EXCEPT !.rx_cnt = 0]),
          ret |-> 0]
publish(ps, key, value) ==
    IF key \in DOMAIN ps
    THEN LET r == broadcast_send(ps[key], value)
         IN [pub_sub |-> [ps EXCEPT ![key] = r.chan],
             ret |-> IF r.ret # None THEN r.ret[1] ELSE 0]
    ELSE [pub_sub |-> ps, ret |-> 0]

(***************************************************************************)
(* tokio_stream::StreamMap as Subscribe::apply uses it: a vector of        *)
(* (key, stream); remove is swap_remove, insert is remove then push.       *)
(***************************************************************************)
index_of(sm, k) ==
    IF \E i \in 1 .. Len(sm) : sm[i].key = k
    THEN CHOOSE i \in 1 .. Len(sm) : sm[i].key = k
    ELSE 0
swap_remove(sm, i) ==
    [j \in 1 .. (Len(sm) - 1) |-> IF j = i THEN sm[Len(sm)] ELSE sm[j]]
stream_map_remove_mut(sm, k) == sm
stream_map_remove(sm, k) ==
    IF index_of(sm, k) = 0 THEN sm ELSE swap_remove(sm, index_of(sm, k))
stream_map_insert_mut(sm, rx) == Append(sm, rx)
stream_map_insert(sm, rx) == Append(stream_map_remove(sm, rx.key), rx)
stream_map_keys(sm) == [i \in 1 .. Len(sm) |-> sm[i].key]

\* Drop for StreamMap: every receiver in it is dropped
RECURSIVE drop_subscriptions(_, _)
drop_subscriptions(ps, sm) ==
    IF sm = << >> THEN ps
    ELSE drop_subscriptions(receiver_drop(ps, Head(sm).key), Tail(sm))

(***************************************************************************)
(* Command::from_frame (cmd/mod.rs 43-88) over parse.rs.  A received frame *)
(* is an Array of Bulk strings, written as the sequence of the strings.    *)
(***************************************************************************)
Error(msg) == [type |-> "Error", msg |-> msg]

\* str::to_lowercase and str::to_uppercase on the words the peers send
to_lowercase(w) ==
    CASE w = "GET" -> "get"
      [] w = "Get" -> "get"
      [] w = "SET" -> "set"
      [] w = "PUBLISH" -> "publish"
      [] w = "SUBSCRIBE" -> "subscribe"
      [] w = "UNSUBSCRIBE" -> "unsubscribe"
      [] w = "PING" -> "ping"
      [] w = "Foo" -> "foo"
      [] OTHER -> w
to_uppercase(w) ==
    CASE w = "ex" -> "EX"
      [] w = "px" -> "PX"
      [] w = "Ex" -> "EX"
      [] OTHER -> w

\* atoi::<u64> on the digit strings the peers send
atoi(w) ==
    CASE w = "0" -> Some(0)
      [] w = "1" -> Some(1)
      [] w = "2" -> Some(2)
      [] OTHER -> None

\* an entry Frame::Integer(n) among the words of a frame
IntegerWords == << ":0", ":1", ":2", ":3" >>
integer_word(n) == IntegerWords[n + 1]

\* Parse::next_int (parse.rs 94-108): an Integer entry is its value, a Simple
\* or Bulk entry goes through atoi
next_int(w) ==
    IF \E n \in 1 .. Len(IntegerWords) : IntegerWords[n] = w
    THEN Some((CHOOSE n \in 1 .. Len(IntegerWords) : IntegerWords[n] = w) - 1)
    ELSE atoi(w)

ParseErr(msg) == [cmd |-> "Err", msg |-> msg]
EndOfStream == "protocol error; unexpected end of stream"

\* Get::parse_frames (cmd/get.rs 46-54) followed by Parse::finish
get_parse_frames(args) ==
    IF args = << >> THEN ParseErr(EndOfStream)
    ELSE IF Len(args) > 1
         THEN ParseErr("protocol error; expected end of frame, but there was more")
         ELSE [cmd |-> "Get", key |-> args[1]]

\* Publish::parse_frames (cmd/publish.rs 51-63) followed by Parse::finish
publish_parse_frames(args) ==
    IF Len(args) < 2 THEN ParseErr(EndOfStream)
    ELSE IF Len(args) > 2
         THEN ParseErr("protocol error; expected end of frame, but there was more")
         ELSE [cmd |-> "Publish", channel |-> args[1], message |-> args[2]]

\* Set::parse_frames (cmd/set.rs 58-99) followed by Parse::finish; the
\* duration is kept in milliseconds
set_parse_frames(args) ==
    IF Len(args) < 2 THEN ParseErr(EndOfStream)
    ELSE IF Len(args) = 2
         THEN [cmd |-> "Set", key |-> args[1], value |-> args[2], expire |-> None]
    ELSE IF to_uppercase(args[3]) \notin {"EX", "PX"}
         THEN ParseErr("currently 'SET' only supports the expiration option")
    ELSE IF Len(args) = 3 THEN ParseErr(EndOfStream)
    ELSE IF next_int(args[4]) = None THEN ParseErr("protocol error; invalid number")
    ELSE IF Len(args) > 4
         THEN ParseErr("protocol error; expected end of frame, but there was more")
    ELSE [cmd |-> "Set", key |-> args[1], value |-> args[2],
          expire |-> Some(IF to_uppercase(args[3]) = "EX"
                          THEN next_int(args[4])[1] * 1000 ELSE next_int(args[4])[1])]

\* Subscribe::parse_frames (subscribe.rs 59-90): at least one channel
subscribe_parse_frames(args) ==
    IF args = << >> THEN ParseErr(EndOfStream)
    ELSE [cmd |-> "Subscribe", channels |-> args]

\* Unsubscribe::parse_frames (subscribe.rs 318-342): any number of channels
unsubscribe_parse_frames(args) == [cmd |-> "Unsubscribe", channels |-> args]

from_frame_mut(frame) ==
    IF frame = << >> THEN ParseErr(EndOfStream)
    ELSE LET command_name == to_lowercase(frame[1])
             args == Tail(frame)
         IN CASE command_name = "get" -> get_parse_frames(args)
              [] command_name = "publish" -> publish_parse_frames(args)
              [] command_name = "set" -> set_parse_frames(args)
              [] command_name = "subscribe" -> subscribe_parse_frames(args)
              [] command_name = "unsubscribe" -> unsubscribe_parse_frames(args)
              [] OTHER ->
                 IF args # << >>
                 THEN ParseErr("protocol error; expected end of frame, but there was more")
                 ELSE [cmd |-> "Unknown", command_name |-> command_name]

from_frame(frame) ==
    IF frame = << >> THEN ParseErr(EndOfStream)
    ELSE LET command_name == to_lowercase(frame[1])
             args == Tail(frame)
         IN CASE command_name = "get" -> get_parse_frames(args)
              [] command_name = "publish" -> publish_parse_frames(args)
              [] command_name = "set" -> set_parse_frames(args)
              [] command_name = "subscribe" -> subscribe_parse_frames(args)
              [] command_name = "unsubscribe" -> unsubscribe_parse_frames(args)
              [] OTHER -> [cmd |-> "Unknown", command_name |-> command_name]

\* the frames the peers send, and from_frame of each of them
ReceivedFrames ==
    { << "GET", "k1" >>, << "Get" >>, << "GET", "k1", "k2" >>,
      << "SET", "k1", "v1" >>, << "SET", "k1" >>, << "PUBLISH", "a", "m1" >>,
      << "SUBSCRIBE", "a" >>, << "SUBSCRIBE", "a", "b" >>, << "SUBSCRIBE", "b", "b" >>,
      << "SUBSCRIBE" >>, << "UNSUBSCRIBE" >>, << "UNSUBSCRIBE", "a" >>,
      << "UNSUBSCRIBE", "a", "b" >>,
      << "PING", "k1", "k2" >>, << "Foo" >> }
parsed == [frame \in ReceivedFrames |-> from_frame(frame)]

(***************************************************************************)
(* The commands as the client builds them (client.rs 101-404) and their    *)
(* into_frame.  A std::time::Duration is whole milliseconds plus the       *)
(* nanoseconds below a millisecond.                                        *)
(***************************************************************************)
Duration(millis, nanos) == [millis |-> millis, nanos |-> nanos]
from_millis(ms) == Duration(ms, 0)
as_millis(d) == d.millis

\* Get::into_frame (cmd/get.rs 86-91)
get_into_frame(c) == << "get", c.key >>

\* Publish::into_frame (cmd/publish.rs 95-102)
publish_into_frame(c) == << "publish", c.channel, c.message >>

set_into_frame_mut(c) ==
    << "set", c.key, c.value >>
       \o (IF c.expire = None THEN << >>
           ELSE << "ex", integer_word(as_millis(c.expire[1])) >>)

\* Set::into_frame (cmd/set.rs 123-140): the expiry goes out as PX with
\* as_millis() of the Duration
set_into_frame(c) ==
    << "set", c.key, c.value >>
       \o (IF c.expire = None THEN << >>
           ELSE << "px", integer_word(as_millis(c.expire[1])) >>)

\* Subscribe::into_frame (subscribe.rs 167-174)
subscribe_into_frame(c) == << "subscribe" >> \o c.channels

\* Unsubscribe::into_frame (subscribe.rs 350-359)
unsubscribe_into_frame(c) == << "unsubscribe" >> \o c.channels

into_frame(c) ==
    CASE c.cmd = "Get" -> get_into_frame(c)
      [] c.cmd = "Publish" -> publish_into_frame(c)
      [] c.cmd = "Set" -> set_into_frame(c)
      [] c.cmd = "Subscribe" -> subscribe_into_frame(c)
      [] c.cmd = "Unsubscribe" -> unsubscribe_into_frame(c)

\* the commands a client builds
ChannelLists(min) == UNION {[1 .. n -> ChannelNames] : n \in min .. MaxFrames}
ClientDurations ==
    {None} \cup {Some(Duration(ms, ns)) : ms \in 0 .. MaxTime, ns \in {0, 500000}}
ClientCommands ==
    {[cmd |-> "Get", key |-> k] : k \in Keys}
       \cup {[cmd |-> "Set", key |-> k, value |-> v, expire |-> d] :
                k \in Keys, v \in Values, d \in ClientDurations}
       \cup {[cmd |-> "Publish", channel |-> c, message |-> m] :
                c \in ChannelNames, m \in Payloads}
       \cup {[cmd |-> "Subscribe", channels |-> l] : l \in ChannelLists(0)}
       \cup {[cmd |-> "Unsubscribe", channels |-> l] : l \in ChannelLists(0)}

\* the client end of a connection: the command built last, its frame on the
\* way to the server, what Command::from_frame made of it, and the number of
\* commands sent
new_client == [cmd |-> None, frame |-> None, parsed |-> None, n |-> 0]

\* Command::get_name (cmd/mod.rs 118-127)
get_name(c) ==
    CASE c.cmd = "Get" -> "get"
      [] c.cmd = "Publish" -> "pub"
      [] c.cmd = "Set" -> "set"
      [] c.cmd = "Subscribe" -> "subscribe"
      [] c.cmd = "Unsubscribe" -> "unsubscribe"
      [] c.cmd = "Unknown" -> c.command_name

\* Unknown::apply (cmd/unknown.rs 28-35)
unknown_response(command_name) == Error(<< "ERR unknown command", command_name >>)

(***************************************************************************)
(* The frame codec: Connection::write_frame (connection.rs 160-243) and    *)
(* Frame::check, Frame::parse (frame.rs 63-159).  A byte is a string of    *)
(* one character; the payload of Simple, Error and Bulk is a sequence of   *)
(* bytes here.                                                             *)
(***************************************************************************)
CRLF == << "\r", "\n" >>
DigitBytes == << "0", "1", "2", "3", "4", "5", "6", "7", "8", "9" >>

\* write!(&mut buf, "{}", val) (connection.rs 233-236)
RECURSIVE decimal(_)
decimal(val) ==
    IF val < 10 THEN << DigitBytes[val + 1] >>
    ELSE Append(decimal(val \div 10), DigitBytes[(val % 10) + 1])

\* connection.rs 230-243
write_decimal(val) == decimal(val) \o CRLF

\* what a write leaves in the BufWriter, or the panic of unreachable!()
Written(bytes) == [panic |-> FALSE, bytes |-> bytes]
Panic == [panic |-> TRUE, bytes |-> << >>]

\* connection.rs 190-227: a literal; an Array here is unreachable!()
write_value(frame) ==
    CASE frame.type = "Simple" -> Written(<< "+" >> \o frame.text \o CRLF)
      [] frame.type = "Error" -> Written(<< "-" >> \o frame.msg \o CRLF)
      [] frame.type = "Integer" -> Written(<< ":" >> \o write_decimal(frame.value))
      [] frame.type = "Null" -> Written(<< "$", "-", "1" >> \o CRLF)
      [] frame.type = "Bulk" ->
            Written(<< "$" >> \o write_decimal(Len(frame.data)) \o frame.data \o CRLF)
      [] frame.type = "Array" -> Panic

\* the entries of an array, written one after the other (connection.rs 175-177)
RECURSIVE write_entries(_)
write_entries(val) ==
    IF val = << >> THEN Written(<< >>)
    ELSE LET first == write_value(Head(val))
             rest == write_entries(Tail(val))
         IN IF first.panic \/ rest.panic THEN Panic
            ELSE Written(first.bytes \o rest.bytes)

\* the mutation: entries that are arrays are written recursively
RECURSIVE encode_frame_mut(_)
encode_frame_mut(frame) ==
    IF frame.type = "Array"
    THEN LET F[i \in 0 .. Len(frame.items)] ==
                 IF i = 0 THEN << >> ELSE F[i - 1] \o encode_frame_mut(frame.items[i]).bytes
         IN Written(<< "*" >> \o write_decimal(Len(frame.items)) \o F[Len(frame.items)])
    ELSE write_value(frame)

\* Connection::write_frame (connection.rs 160-187): the bytes flushed
encode_frame(frame) ==
    IF frame.type = "Array"
    THEN LET body == write_entries(frame.items)
         IN IF body.panic THEN Panic
            ELSE Written(<< "*" >> \o write_decimal(Len(frame.items)) \o body.bytes)
    ELSE write_value(frame)

\* results of the functions over Cursor<&[u8]>; pos is the index of the next
\* byte, counted from 1
Incomplete == [err |-> "Incomplete"]
Other(msg) == [err |-> msg]
OkAt(value, pos) == [err |-> "", value |-> value, pos |-> pos]

\* frame.rs 240-257
get_line(src, pos) ==
    LET ends == {i \in pos .. Len(src) - 1 : src[i] = "\r" /\ src[i + 1] = "\n"}
    IN IF ends = {} THEN Incomplete
       ELSE LET i == CHOOSE e \in ends : \A f \in ends : e <= f
            IN OkAt(SubSeq(src, pos, i - 1), i + 2)

\* atoi::<u64>: the value of the leading digits, None when there is none
digit_value(b) == CHOOSE d \in 0 .. 9 : DigitBytes[d + 1] = b
is_digit(b) == \E d \in 0 .. 9 : DigitBytes[d + 1] = b
atoi_u64(line) ==
    LET n == IF \E i \in 1 .. Len(line) : ~is_digit(line[i])
             THEN (CHOOSE i \in 1 .. Len(line) :
                      ~is_digit(line[i]) /\ \A j \in 1 .. i - 1 : is_digit(line[j])) - 1
             ELSE Len(line)
         V[i \in 0 .. n] == IF i = 0 THEN 0 ELSE V[i - 1] * 10 + digit_value(line[i])
    IN IF n = 0 THEN None ELSE Some(V[n])

\* frame.rs 231-237
get_decimal(src, pos) ==
    LET line == get_line(src, pos)
    IN IF line.err # "" THEN line
       ELSE IF atoi_u64(line.value) = None THEN Other("protocol error; invalid frame format")
       ELSE OkAt(atoi_u64(line.value)[1], line.pos)

\* frame.rs 220-227
skip(src, pos, n) ==
    IF Len(src) - (pos - 1) < n THEN Incomplete ELSE OkAt(<< >>, pos + n)

\* Frame::check (frame.rs 63-99)
RECURSIVE check(_, _)
check(src, pos) ==
    IF pos > Len(src) THEN Incomplete
    ELSE CASE src[pos] \in {"+", "-"} -> get_line(src, pos + 1)
           [] src[pos] = ":" -> get_decimal(src, pos + 1)
           [] src[pos] = "$" ->
                 IF pos + 1 > Len(src) THEN Incomplete
                 ELSE IF src[pos + 1] = "-" THEN skip(src, pos + 1, 4)
                 ELSE LET len == get_decimal(src, pos + 1)
                      IN IF len.err # "" THEN len ELSE skip(src, len.pos, len.value + 2)
           [] src[pos] = "*" ->
                 LET len == get_decimal(src, pos + 1)
                     C[i \in 0 .. (IF len.err # "" THEN 0 ELSE len.value)] ==
                         IF i = 0 THEN len
                         ELSE IF C[i - 1].err # "" THEN C[i - 1]
                         ELSE check(src, C[i - 1].pos)
                 IN IF len.err # "" THEN len ELSE C[len.value]
           [] OTHER -> Other("protocol error; invalid frame type byte")

\* Frame::parse (frame.rs 102-159)
RECURSIVE parse(_, _)
parse(src, pos) ==
    IF pos > Len(src) THEN Incomplete
    ELSE CASE src[pos] = "+" ->
                 LET line == get_line(src, pos + 1)
                 IN IF line.err # "" THEN line ELSE OkAt(Simple(line.value), line.pos)
           [] src[pos] = "-" ->
                 LET line == get_line(src, pos + 1)
                 IN IF line.err # "" THEN line ELSE OkAt(Error(line.value), line.pos)
           [] src[pos] = ":" ->
                 LET len == get_decimal(src, pos + 1)
                 IN IF len.err # "" THEN len ELSE OkAt(Integer(len.value), len.pos)
           [] src[pos] = "$" ->
                 IF pos + 1 > Len(src) THEN Incomplete
                 ELSE IF src[pos + 1] = "-"
                 THEN LET line == get_line(src, pos + 1)
                      IN IF line.err # "" THEN line
                         ELSE IF line.value # << "-", "1" >>
                         THEN Other("protocol error; invalid frame format")
                         ELSE OkAt(Null, line.pos)
                 ELSE LET len == get_decimal(src, pos + 1)
                      IN IF len.err # "" THEN len
                         ELSE IF Len(src) - (len.pos - 1) < len.value + 2 THEN Incomplete
                         ELSE OkAt(Bulk(SubSeq(src, len.pos, len.pos + len.value - 1)),
                                   len.pos + len.value + 2)
           [] src[pos] = "*" ->
                 LET len == get_decimal(src, pos + 1)
                     P[i \in 0 .. (IF len.err # "" THEN 0 ELSE len.value)] ==
                         IF i = 0 THEN OkAt(<< >>, IF len.err # "" THEN pos ELSE len.pos)
                         ELSE IF P[i - 1].err # "" THEN P[i - 1]
                         ELSE LET entry == parse(src, P[i - 1].pos)
                              IN IF entry.err # "" THEN entry
                                 ELSE OkAt(Append(P[i - 1].value, entry.value), entry.pos)
                 IN IF len.err # "" THEN len
                    ELSE IF P[len.value].err # "" THEN P[len.value]
                    ELSE OkAt(Array(P[len.value].value), P[len.value].pos)
           [] OTHER -> Other("unimplemented")

\* Connection::parse_frame (connection.rs 85-150): None while the buffer
\* holds no whole frame, else the frame and what is left of the buffer
parse_frame(buffer) ==
    LET checked == check(buffer, 1)
    IN IF checked.err = "Incomplete" THEN None
       ELSE IF checked.err # "" THEN Some(checked)
       ELSE LET frame == parse(buffer, 1)
            IN IF frame.err # "" THEN Some(frame)
               ELSE Some([err |-> "", frame |-> frame.value,
                          buffer |-> SubSeq(buffer, checked.pos, Len(buffer))])

(***************************************************************************)
(* Handler::run (server.rs 345-396), command mode                          *)
(***************************************************************************)
\* the socket of a connection seen from both ends: the Connection that
\* writes and the Connection of the peer that reads (client.rs uses the same
\* Connection type)
new_wire ==
    [w |-> "write_frame", sent |-> None, stream |-> << >>,
     r |-> "read_frame", buffer |-> << >>, received |-> << >>,
     err |-> "", peer |-> << >>, cut |-> 0]

\* the peer of the connection as a Client / Subscriber (client.rs 23-34,
\* 42-54): the channels it believes it is subscribed to, the call it is in
\* (fn, its channels, the acknowledgments it waits for and those it has
\* read), how the last call returned, and the number of calls made
new_subscriber ==
    [subscribed_channels |-> << >>, state |-> "idle", fn |-> "", channels |-> << >>,
     num |-> 0, got |-> 0, calls |-> 0]

\* the Handler built at server.rs 257-283, before it has read anything
new_handler ==
    [pc |-> "select", wnext |-> "select", out |-> NoFrame,
     subscriptions |-> << >>, new_rx |-> None, channels |-> << >>,
     unsub |-> << >>, frames |-> 0, shutdown |-> FALSE,
     last_pos |-> [c \in ChannelNames |-> -1],
     skipped |-> [c \in ChannelNames |-> 0],
     requested |-> << >>, acked |-> << >>, budget |-> MaxFrames, err |-> None,
     unrequested |-> None, unheld |-> << >>, unacked |-> << >>,
     wire |-> new_wire, client |-> new_client, call |-> None,
     subscriber |-> new_subscriber]

no_handler == [new_handler EXCEPT !.pc = "none"]

write_frame_mut(hd, frame, next) == [hd EXCEPT !.out = frame, !.pc = next, !.wnext = next]

\* a frame goes out: the handler continues at `next` once it is written
write_frame(hd, frame, next) == [hd EXCEPT !.out = frame, !.pc = "write", !.wnext = next]

\* connection.write_frame(..).await completes
write_frame_done(h) ==
    /\ handlers[h].pc = "write"
    /\ handlers' = [handlers EXCEPT ![h].pc = handlers[h].wnext]
    /\ UNCHANGED << dbvars, psvars, srvvars >>

\* server.rs 351, 365-368: read_frame returns None, the peer closed the socket
handler_eof(h) ==
    /\ handlers[h].pc = "select"
    /\ handlers' = [handlers EXCEPT ![h].pc = "returned"]
    /\ UNCHANGED << dbvars, psvars, srvvars >>

\* Shutdown::recv (shutdown.rs 33-44): the broadcast receiver completes once
\* the sender is dropped
shutdown_recv_mut == FALSE
shutdown_recv == ~notify_shutdown

\* server.rs 352-358: the select takes the shutdown branch
handler_shutdown_recv(h) ==
    /\ handlers[h].pc = "select"
    /\ shutdown_recv
    /\ handlers' = [handlers EXCEPT ![h].pc = "returned", ![h].shutdown = TRUE]
    /\ UNCHANGED << dbvars, psvars, srvvars >>

\* a GET frame is read and applied (cmd/get.rs 61-79)
handler_get(h, key) ==
    /\ handlers[h].pc = "select"
    /\ handlers[h].frames < handlers[h].budget
    /\ handlers' = [handlers EXCEPT ![h] =
          write_frame([@ EXCEPT !.frames = @ + 1],
                      IF get(key) # None THEN Bulk(get(key)[1]) ELSE Null, "select")]
    /\ UNCHANGED << dbvars, psvars, srvvars >>

\* a PUBLISH frame is read and applied (cmd/publish.rs 70-88)
handler_publish(h, channel, message) ==
    /\ handlers[h].pc = "select"
    /\ handlers[h].frames < handlers[h].budget
    /\ LET r == publish(pub_sub, channel, message)
       IN /\ pub_sub' = r.pub_sub
          /\ handlers' = [handlers EXCEPT ![h] =
                write_frame([@ EXCEPT !.frames = @ + 1], Integer(r.ret), "select")]
    /\ UNCHANGED << dbvars, srvvars >>

\* a SUBSCRIBE frame is read: Subscribe::apply starts (subscribe.rs 101-116)
handler_subscribe(h, chans) ==
    /\ handlers[h].pc = "select"
    /\ handlers[h].frames < handlers[h].budget
    /\ handlers' = [handlers EXCEPT ![h] =
          [@ EXCEPT !.frames = @ + 1, !.channels = chans,
                    !.subscriptions = << >>, !.pc = "subscribe",
                    !.requested = chans, !.acked = << >>]]
    /\ UNCHANGED << dbvars, psvars, srvvars >>

(***************************************************************************)
(* Subscribe::apply (subscribe.rs 101-159)                                 *)
(***************************************************************************)
\* subscribe.rs 124-125, 183: the next channel is drained and db.subscribe
\* hands out a receiver
subscribe_to_channel_db(h) ==
    /\ handlers[h].pc = "subscribe"
    /\ LET r == subscribe(pub_sub, Head(handlers[h].channels))
       IN /\ pub_sub' = r.pub_sub
          /\ handlers' = [handlers EXCEPT ![h] =
                [@ EXCEPT !.channels = Tail(@), !.new_rx = Some(r.rx), !.pc = "insert"]]
    /\ UNCHANGED << dbvars, srvvars >>

subscribe_to_channel_insert_mut(h) ==
    /\ handlers[h].pc = "insert"
    /\ LET hd == handlers[h]
           rx == [hd.new_rx[1] EXCEPT !.next = pub_sub[hd.new_rx[1].key].pos]
           sm == stream_map_insert(hd.subscriptions, rx)
       IN /\ pub_sub' = IF index_of(hd.subscriptions, rx.key) # 0
                        THEN receiver_drop(pub_sub, rx.key) ELSE pub_sub
          /\ handlers' = [handlers EXCEPT ![h] =
                write_frame([hd EXCEPT !.subscriptions = sm, !.new_rx = None,
                                       !.acked = Append(@, make_subscribe_frame(rx.key, Len(sm)))],
                            make_subscribe_frame(rx.key, Len(sm)),
                            IF hd.channels = << >> THEN "sub_select" ELSE "subscribe")]
    /\ UNCHANGED << dbvars, srvvars >>

\* subscribe.rs 198-202: the receiver goes into the StreamMap, which drops the
\* receiver it held for that name, and the acknowledgment is written
subscribe_to_channel_insert(h) ==
    /\ handlers[h].pc = "insert"
    /\ LET hd == handlers[h]
           rx == hd.new_rx[1]
           sm == stream_map_insert(hd.subscriptions, rx)
       IN /\ pub_sub' = IF index_of(hd.subscriptions, rx.key) # 0
                        THEN receiver_drop(pub_sub, rx.key) ELSE pub_sub
          /\ handlers' = [handlers EXCEPT ![h] =
                write_frame([hd EXCEPT !.subscriptions = sm, !.new_rx = None,
                                       !.acked = Append(@, make_subscribe_frame(rx.key, Len(sm)))],
                            make_subscribe_frame(rx.key, Len(sm)),
                            IF hd.channels = << >> THEN "sub_select" ELSE "subscribe")]
    /\ UNCHANGED << dbvars, srvvars >>

\* subscribe.rs 137-139, 188-189: stream i yields the next value of its
\* channel and the message frame is written
subscriptions_next(h, i) ==
    /\ handlers[h].pc = "sub_select"
    /\ i \in 1 .. Len(handlers[h].subscriptions)
    /\ LET hd == handlers[h]
           rx == hd.subscriptions[i]
           ch == pub_sub[rx.key]
       IN /\ rx.next < ch.pos
          /\ rx.next >= oldest(ch)
          /\ handlers' = [handlers EXCEPT ![h] =
                write_frame([hd EXCEPT !.subscriptions[i].next = rx.next + 1,
                                       !.last_pos[rx.key] = rx.next],
                            make_message_frame(rx.key, ch.buffer[rx.next - oldest(ch) + 1]),
                            "sub_select")]
    /\ UNCHANGED << dbvars, psvars, srvvars >>

\* subscribe.rs 191: recv returns Lagged, the receiver moves to the oldest
\* value the channel holds and the stream tries again
receiver_lagged_mut(h, i) ==
    /\ handlers[h].pc = "sub_select"
    /\ i \in 1 .. Len(handlers[h].subscriptions)
    /\ LET rx == handlers[h].subscriptions[i]
           ch == pub_sub[rx.key]
       IN /\ rx.next < oldest(ch)
          /\ pub_sub' = receiver_drop(pub_sub, rx.key)
          /\ handlers' = [handlers EXCEPT ![h].subscriptions = swap_remove(@, i)]
    /\ UNCHANGED << dbvars, srvvars >>

receiver_lagged(h, i) ==
    /\ handlers[h].pc = "sub_select"
    /\ i \in 1 .. Len(handlers[h].subscriptions)
    /\ LET rx == handlers[h].subscriptions[i]
           ch == pub_sub[rx.key]
       IN /\ rx.next < oldest(ch)
          /\ handlers' = [handlers EXCEPT ![h].subscriptions[i].next = oldest(ch),
                                          ![h].skipped[rx.key] = @ + oldest(ch) - rx.next]
    /\ UNCHANGED << dbvars, psvars, srvvars >>

\* subscribe.rs 140-153, 225-228: a SUBSCRIBE frame in subscriber mode
sub_subscribe(h, chans) ==
    /\ handlers[h].pc = "sub_select"
    /\ handlers[h].frames < handlers[h].budget
    /\ handlers' = [handlers EXCEPT ![h] =
          [@ EXCEPT !.frames = @ + 1, !.channels = @ \o chans, !.pc = "subscribe",
                    !.requested = chans, !.acked = << >>,
                    !.unrequested = None, !.unheld = << >>, !.unacked = << >>]]
    /\ UNCHANGED << dbvars, psvars, srvvars >>

\* subscribe.rs 229-240: an UNSUBSCRIBE frame; no channel means all of them
sub_unsubscribe_mut(h, chans) ==
    /\ handlers[h].pc = "sub_select"
    /\ handlers[h].frames < handlers[h].budget
    /\ handlers' = [handlers EXCEPT ![h] =
          [@ EXCEPT !.frames = @ + 1, !.unsub = chans,
                    !.pc = IF chans = << >> THEN "sub_select" ELSE "unsubscribe",
                    !.unrequested = Some(chans),
                    !.unheld = stream_map_keys(handlers[h].subscriptions),
                    !.unacked = << >>]]
    /\ UNCHANGED << dbvars, psvars, srvvars >>

sub_unsubscribe(h, chans) ==
    /\ handlers[h].pc = "sub_select"
    /\ handlers[h].frames < handlers[h].budget
    /\ LET list == IF chans = << >> THEN stream_map_keys(handlers[h].subscriptions)
                   ELSE chans
       IN handlers' = [handlers EXCEPT ![h] =
             [@ EXCEPT !.frames = @ + 1, !.unsub = list,
                       !.pc = IF list = << >> THEN "sub_select" ELSE "unsubscribe",
                       !.unrequested = Some(chans),
                       !.unheld = stream_map_keys(handlers[h].subscriptions),
                       !.unacked = << >>]]
    /\ UNCHANGED << dbvars, psvars, srvvars >>

\* subscribe.rs 242-247: one channel is removed from the StreamMap, which
\* drops its receiver, and the acknowledgment is written
unsubscribe_channel(h) ==
    /\ handlers[h].pc = "unsubscribe"
    /\ LET hd == handlers[h]
           name == Head(hd.unsub)
           sm == stream_map_remove(hd.subscriptions, name)
       IN /\ pub_sub' = IF index_of(hd.subscriptions, name) # 0
                        THEN receiver_drop(pub_sub, name) ELSE pub_sub
          /\ handlers' = [handlers EXCEPT ![h] =
                write_frame([hd EXCEPT !.subscriptions = sm, !.unsub = Tail(@),
                                       !.unacked = Append(@, make_unsubscribe_frame(name, Len(sm)))],
                            make_unsubscribe_frame(name, Len(sm)),
                            IF Tail(hd.unsub) = << >> THEN "sub_select" ELSE "unsubscribe")]
    /\ UNCHANGED << dbvars, srvvars >>

\* subscribe.rs 141-145: read_frame returns None; apply returns, its StreamMap
\* is dropped, and Handler::run reads None again (server.rs 365-368)
sub_eof(h) ==
    /\ handlers[h].pc = "sub_select"
    /\ pub_sub' = drop_subscriptions(pub_sub, handlers[h].subscriptions)
    /\ handlers' = [handlers EXCEPT ![h].subscriptions = << >>, ![h].pc = "returned"]
    /\ UNCHANGED << dbvars, srvvars >>

\* subscribe.rs 154-156: shutdown.recv() completes; apply returns and the
\* loop of Handler::run ends on is_shutdown (server.rs 349)
sub_shutdown_recv(h) ==
    /\ handlers[h].pc = "sub_select"
    /\ shutdown_recv
    /\ pub_sub' = drop_subscriptions(pub_sub, handlers[h].subscriptions)
    /\ handlers' = [handlers EXCEPT ![h].subscriptions = << >>, ![h].pc = "returned",
                                    ![h].shutdown = TRUE]
    /\ UNCHANGED << dbvars, srvvars >>

(***************************************************************************)
(* Frames as they arrive: Command::from_frame and the dispatch of          *)
(* Command::apply (cmd/mod.rs 95-115) in Handler::run, and of              *)
(* handle_command (subscribe.rs 213-255) in subscriber mode.               *)
(***************************************************************************)
\* Set::apply (cmd/set.rs 106-116)
handler_set(h, key, value, expire) ==
    /\ handlers[h].pc = "select"
    /\ handlers[h].frames < handlers[h].budget
    /\ db_set(key, value, expire)
    /\ handlers' = [handlers EXCEPT ![h] =
          write_frame([@ EXCEPT !.frames = @ + 1], Simple("OK"), "select")]
    /\ UNCHANGED << psvars, srvvars >>

unknown_apply_mut(hd, command_name, next) == [hd EXCEPT !.pc = "returned"]
\* Unknown::apply (cmd/unknown.rs 28-35): the error reply is written
unknown_apply(hd, command_name, next) ==
    write_frame(hd, unknown_response(command_name), next)

\* cmd/mod.rs 76, 108
handler_unknown(h, command_name) ==
    /\ handlers[h].pc = "select"
    /\ handlers[h].frames < handlers[h].budget
    /\ handlers' = [handlers EXCEPT ![h] =
          unknown_apply([@ EXCEPT !.frames = @ + 1], command_name, "select")]
    /\ UNCHANGED << dbvars, psvars, srvvars >>

\* how Handler::run leaves on an Err of from_frame or apply (server.rs 374,
\* 392): the ? returns it, nothing is written
run_err_mut(hd, msg) == write_frame([hd EXCEPT !.err = Some(msg)], Error(msg), "returned")
run_err(hd, msg) == [hd EXCEPT !.pc = "returned", !.err = Some(msg)]

handler_unsubscribe_mut(h) ==
    /\ handlers[h].pc = "select"
    /\ handlers[h].frames < handlers[h].budget
    /\ handlers' = [handlers EXCEPT ![h] =
          write_frame([@ EXCEPT !.frames = @ + 1,
                                !.err = Some("'Unsubscribe' is unsupported in this context")],
                      Error("'Unsubscribe' is unsupported in this context"), "select")]
    /\ UNCHANGED << dbvars, psvars, srvvars >>

\* cmd/mod.rs 113: apply of Unsubscribe is an Err
handler_unsubscribe(h) ==
    /\ handlers[h].pc = "select"
    /\ handlers[h].frames < handlers[h].budget
    /\ handlers' = [handlers EXCEPT ![h] =
          run_err([@ EXCEPT !.frames = @ + 1],
                  "'Unsubscribe' is unsupported in this context")]
    /\ UNCHANGED << dbvars, psvars, srvvars >>

handler_parse_error_mut(h, msg) ==
    /\ handlers[h].pc = "select"
    /\ handlers[h].frames < handlers[h].budget
    /\ handlers' = [handlers EXCEPT ![h] =
          write_frame([@ EXCEPT !.frames = @ + 1, !.err = Some(msg)], Error(msg), "returned")]
    /\ UNCHANGED << dbvars, psvars, srvvars >>

\* server.rs 374: from_frame is an Err
handler_parse_error(h, msg) ==
    /\ handlers[h].pc = "select"
    /\ handlers[h].frames < handlers[h].budget
    /\ handlers' = [handlers EXCEPT ![h] = run_err([@ EXCEPT !.frames = @ + 1], msg)]
    /\ UNCHANGED << dbvars, psvars, srvvars >>

\* server.rs 351-392: a frame is read in command mode
handler_read(h, frame) ==
    LET c == parsed[frame]
    IN \/ c.cmd = "Get" /\ handler_get(h, c.key)
       \/ c.cmd = "Set" /\ handler_set(h, c.key, c.value, c.expire)
       \/ c.cmd = "Publish" /\ handler_publish(h, c.channel, c.message)
       \/ c.cmd = "Subscribe" /\ handler_subscribe(h, c.channels)
       \/ c.cmd = "Unsubscribe" /\ handler_unsubscribe(h)
       \/ c.cmd = "Unknown" /\ handler_unknown(h, c.command_name)
       \/ c.cmd = "Err" /\ handler_parse_error(h, c.msg)

\* subscribe.rs 249-252: any other command is answered as unknown
sub_unknown_mut(h, name) ==
    /\ handlers[h].pc = "sub_select"
    /\ handlers[h].frames < handlers[h].budget
    /\ pub_sub' = drop_subscriptions(pub_sub, handlers[h].subscriptions)
    /\ handlers' = [handlers EXCEPT ![h] =
          [@ EXCEPT !.frames = @ + 1, !.subscriptions = << >>, !.pc = "returned"]]
    /\ UNCHANGED << dbvars, srvvars >>

sub_unknown(h, name) ==
    /\ handlers[h].pc = "sub_select"
    /\ handlers[h].frames < handlers[h].budget
    /\ handlers' = [handlers EXCEPT ![h] =
          unknown_apply([@ EXCEPT !.frames = @ + 1, !.unrequested = None,
                                  !.unheld = << >>, !.unacked = << >>],
                        name, "sub_select")]
    /\ UNCHANGED << dbvars, psvars, srvvars >>

\* subscribe.rs 224: from_frame is an Err; apply and Handler::run return it
sub_parse_error(h, msg) ==
    /\ handlers[h].pc = "sub_select"
    /\ handlers[h].frames < handlers[h].budget
    /\ pub_sub' = drop_subscriptions(pub_sub, handlers[h].subscriptions)
    /\ handlers' = [handlers EXCEPT ![h] =
          run_err([@ EXCEPT !.frames = @ + 1, !.subscriptions = << >>,
                            !.unrequested = None, !.unheld = << >>, !.unacked = << >>],
                  msg)]
    /\ UNCHANGED << dbvars, srvvars >>

\* subscribe.rs 140-152, 213-255: a frame is read in subscriber mode
sub_read(h, frame) ==
    LET c == parsed[frame]
    IN \/ c.cmd = "Subscribe" /\ sub_subscribe(h, c.channels)
       \/ c.cmd = "Unsubscribe" /\ sub_unsubscribe(h, c.channels)
       \/ c.cmd \in {"Get", "Set", "Publish", "Unknown"} /\ sub_unknown(h, get_name(c))
       \/ c.cmd = "Err" /\ sub_parse_error(h, c.msg)

(***************************************************************************)
(* The codec at work: one Connection writes a frame, the socket carries    *)
(* the bytes in pieces, and Connection::read_frame of the peer             *)
(* (connection.rs 55-78) parses them.                                      *)
(***************************************************************************)
CodecTexts ==
    { << >>, << "O", "K" >>, << "\r" >>, << "\n", "\r" >>, << "\r", "\n" >>,
      << "a", "\r", "\n", "b" >> }
CodecIntegers == {0, 7, 10, 305}
Literals ==
    {Simple(t) : t \in CodecTexts} \cup {Error(t) : t \in CodecTexts}
       \cup {Bulk(t) : t \in CodecTexts} \cup {Integer(n) : n \in CodecIntegers} \cup {Null}
ArrayEntries ==
    { Simple(<< "O", "K" >>), Error(<< "\r", "\n" >>), Bulk(<< "\r", "\n" >>),
      Integer(10), Null, Array(<< >>), Array(<< Bulk(<< "O", "K" >>) >>) }
MaxArrayLen == 2
\* the most bytes one read_buf call returns
MaxChunk == 3
CodecFrames ==
    Literals \cup {Array(items) : items \in UNION {[1 .. n -> ArrayEntries] : n \in 0 .. MaxArrayLen}}

\* write_frame(frame).await: the bytes reach the socket at the flush
\* (connection.rs 186); a panic unwinds the task before anything is flushed
connection_write_frame(h, frame) ==
    /\ handlers[h].wire.w = "write_frame"
    /\ LET written == encode_frame(frame)
       IN handlers' = [handlers EXCEPT ![h].wire =
             [@ EXCEPT !.sent = Some(frame),
                       !.w = IF written.panic THEN "panicked" ELSE "flushed",
                       !.stream = written.bytes]]
    /\ UNCHANGED << dbvars, psvars, srvvars >>

\* connection.rs 61-70: no whole frame is buffered and read_buf gets n bytes
read_buf(h, n) ==
    /\ handlers[h].wire.r = "read_frame"
    /\ parse_frame(handlers[h].wire.buffer) = None
    /\ n \in 1 .. Len(handlers[h].wire.stream)
    /\ handlers' = [handlers EXCEPT ![h].wire =
          [@ EXCEPT !.buffer = @ \o SubSeq(handlers[h].wire.stream, 1, n),
                    !.stream = SubSeq(@, n + 1, Len(@))]]
    /\ UNCHANGED << dbvars, psvars, srvvars >>

\* connection.rs 61-63, 85-150: a whole frame is buffered; it is returned and
\* the buffer advances past it
read_frame_some(h) ==
    /\ handlers[h].wire.r = "read_frame"
    /\ parse_frame(handlers[h].wire.buffer) # None
    /\ parse_frame(handlers[h].wire.buffer)[1].err = ""
    /\ LET res == parse_frame(handlers[h].wire.buffer)[1]
       IN handlers' = [handlers EXCEPT ![h].wire =
             [@ EXCEPT !.received = Append(@, res.frame), !.buffer = res.buffer]]
    /\ UNCHANGED << dbvars, psvars, srvvars >>

\* connection.rs 61, 85-150: the buffered bytes are no frame; read_frame is an Err
read_frame_invalid(h) ==
    /\ handlers[h].wire.r = "read_frame"
    /\ parse_frame(handlers[h].wire.buffer) # None
    /\ parse_frame(handlers[h].wire.buffer)[1].err # ""
    /\ handlers' = [handlers EXCEPT ![h].wire.r = "read_err",
          ![h].wire.err = parse_frame(handlers[h].wire.buffer)[1].err]
    /\ UNCHANGED << dbvars, psvars, srvvars >>

read_frame_eof_mut(h) ==
    /\ handlers[h].wire.r = "read_frame"
    /\ handlers[h].wire.w \in {"flushed", "panicked"}
    /\ handlers[h].wire.stream = << >>
    /\ handlers' = [handlers EXCEPT ![h].wire =
          IF handlers[h].wire.buffer = << >>
          THEN [@ EXCEPT !.r = "read_none"]
          ELSE [@ EXCEPT !.r = "read_err", !.err = "connection reset by peer"]]
    /\ UNCHANGED << dbvars, psvars, srvvars >>

\* connection.rs 70-76: read_buf returns 0, the writing side is gone; None when
\* the buffer is empty, else Err("connection reset by peer")
read_frame_eof(h) ==
    /\ handlers[h].wire.r = "read_frame"
    /\ handlers[h].wire.w \in {"flushed", "panicked"}
    /\ handlers[h].wire.stream = << >>
    /\ parse_frame(handlers[h].wire.buffer) = None
    /\ handlers' = [handlers EXCEPT ![h].wire =
          IF handlers[h].wire.buffer = << >>
          THEN [@ EXCEPT !.r = "read_none"]
          ELSE [@ EXCEPT !.r = "read_err", !.err = "connection reset by peer"]]
    /\ UNCHANGED << dbvars, psvars, srvvars >>

(***************************************************************************)
(* Commands from Client to Handler: into_frame at the client (client.rs    *)
(* 101, 208, 246, 284, 404), Command::from_frame at the server             *)
(* (server.rs 374).                                                        *)
(***************************************************************************)
client_into_frame(h, c) ==
    /\ handlers[h].client.frame = None
    /\ handlers[h].client.n < MaxFrames
    /\ handlers' = [handlers EXCEPT ![h].client =
          [cmd |-> Some(c), frame |-> Some(into_frame(c)), parsed |-> None, n |-> @.n + 1]]
    /\ UNCHANGED << dbvars, psvars, srvvars >>

server_from_frame(h) ==
    /\ handlers[h].client.frame # None
    /\ handlers' = [handlers EXCEPT ![h].client =
          [@ EXCEPT !.frame = None, !.parsed = Some(from_frame(handlers[h].client.frame[1]))]]
    /\ UNCHANGED << dbvars, psvars, srvvars >>

(***************************************************************************)
(* The handler task ends (server.rs 288-293): Drop for Handler, then its   *)
(* fields in declaration order, db first and _shutdown_complete last.      *)
(***************************************************************************)
handler_error_mut(h) ==
    /\ handlers[h].pc \in {"select", "write", "sub_select"}
    /\ pub_sub' = EmptyMap
    /\ handlers' = [handlers EXCEPT ![h].subscriptions = << >>, ![h].pc = "returned",
                                    ![h].err = Some("connection reset by peer")]
    /\ UNCHANGED << dbvars, srvvars >>

\* server.rs 351, 392 and every write_frame(..).await?: a transport error
\* ends Handler::run with Err; what Subscribe::apply holds is dropped.  A
\* panic of the task unwinds through the same drops.
handler_error(h) ==
    /\ handlers[h].pc \in {"select", "write", "sub_select"}
    /\ pub_sub' = drop_subscriptions(pub_sub, handlers[h].subscriptions)
    /\ handlers' = [handlers EXCEPT ![h].subscriptions = << >>, ![h].pc = "returned",
                                    ![h].err = Some("connection reset by peer")]
    /\ UNCHANGED << dbvars, srvvars >>

handler_drop_mut(h) ==
    /\ handlers[h].pc = "returned"
    /\ handlers' = [handlers EXCEPT ![h].pc = "drop_db"]
    /\ UNCHANGED << dbvars, psvars, srvvars >>

\* Drop for Handler (server.rs 399-412)
handler_drop(h) ==
    /\ handlers[h].pc = "returned"
    /\ permits' = permits + 1
    /\ handlers' = [handlers EXCEPT ![h].pc = "drop_db"]
    /\ UNCHANGED << dbvars, psvars, run_pc, listener_pc, backoff, notify_shutdown,
                    tx_count, db_strong, accepted >>

db_drop_early_mut ==
    /\ shutdown' = (shutdown \/ db_strong <= 3)
    /\ pending_notify' = IF db_strong <= 3 THEN pending_notify + 1 ELSE pending_notify
    /\ mutex' = None
    /\ UNCHANGED << entries, expirations, next_id, background_task, now, worker_pc,
                    worker_when, get_reply, applied >>

db_drop_mut ==
    /\ pending_notify' = IF db_strong = 2 THEN pending_notify + 1 ELSE pending_notify
    /\ mutex' = None
    /\ UNCHANGED << entries, expirations, next_id, shutdown, background_task, now,
                    worker_pc, worker_when, get_reply, applied >>

\* Drop for Db (db.rs 254-279): strong_count is read while this handle still
\* counts; at 2 the flag is set under the lock and notify_one follows
db_drop ==
    /\ shutdown' = (shutdown \/ db_strong = 2)
    /\ pending_notify' = IF db_strong = 2 THEN pending_notify + 1 ELSE pending_notify
    /\ mutex' = None
    /\ UNCHANGED << entries, expirations, next_id, background_task, now, worker_pc,
                    worker_when, get_reply, applied >>

\* the field Db::shared (db.rs 22) is dropped once Drop::drop has returned:
\* the count of the Arc goes down
arc_drop == db_strong' = db_strong - 1

handler_drop_db_mut(h) ==
    /\ handlers[h].pc = "drop_db"
    /\ db_drop
    /\ tx_count' = tx_count - 1
    /\ handlers' = [handlers EXCEPT ![h].pc = "drop_arc"]
    /\ UNCHANGED << psvars, run_pc, listener_pc, backoff, permits, notify_shutdown,
                    db_strong, accepted >>

handler_drop_db(h) ==
    /\ handlers[h].pc = "drop_db"
    /\ db_drop
    /\ handlers' = [handlers EXCEPT ![h].pc = "drop_arc"]
    /\ UNCHANGED << psvars, srvvars >>

handler_drop_arc(h) ==
    /\ handlers[h].pc = "drop_arc"
    /\ arc_drop
    /\ handlers' = [handlers EXCEPT ![h].pc = "drop_tx"]
    /\ UNCHANGED << dbvars, psvars, run_pc, listener_pc, backoff, permits,
                    notify_shutdown, tx_count, accepted >>

\* the handler's clone of shutdown_complete_tx (server.rs 114) is dropped
handler_drop_tx(h) ==
    /\ handlers[h].pc = "drop_tx"
    /\ tx_count' = tx_count - 1
    /\ handlers' = [handlers EXCEPT ![h].pc = "dropped"]
    /\ UNCHANGED << dbvars, psvars, run_pc, listener_pc, backoff, permits,
                    notify_shutdown, db_strong, accepted >>

(***************************************************************************)
(* Listener::run and Listener::accept (server.rs 232-330)                  *)
(***************************************************************************)
listener_acquire_mut ==
    /\ listener_pc = "acquire"
    /\ listener_pc' = "accept"
    /\ backoff' = 1
    /\ UNCHANGED << dbvars, psvars, hvars, run_pc, permits, notify_shutdown, tx_count,
                    db_strong, accepted >>

\* server.rs 248: a permit is acquired and forgotten; accept starts at 1 s
listener_acquire ==
    /\ listener_pc = "acquire"
    /\ permits > 0
    /\ permits' = permits - 1
    /\ listener_pc' = "accept"
    /\ backoff' = 1
    /\ UNCHANGED << dbvars, psvars, hvars, run_pc, notify_shutdown, tx_count,
                    db_strong, accepted >>

\* server.rs 314, 257-293: a socket is accepted and its handler is spawned;
\* limit bounds the number of connections the peers open
accept(limit) ==
    /\ listener_pc = "accept"
    /\ accepted < limit
    /\ handlers' = [handlers EXCEPT ![accepted + 1] = new_handler]
    /\ accepted' = accepted + 1
    /\ db_strong' = db_strong + 1
    /\ tx_count' = tx_count + 1
    /\ listener_pc' = "acquire"
    /\ UNCHANGED << dbvars, psvars, run_pc, backoff, permits, notify_shutdown >>

accept_ok == accept(MaxAccepts)

accept_err_sixth_mut ==
    /\ listener_pc = "accept"
    /\ IF backoff > 16
       THEN listener_pc' = "failed" /\ run_pc' = "drop_notify"
       ELSE listener_pc' = "sleep" /\ run_pc' = run_pc
    /\ UNCHANGED << dbvars, psvars, hvars, backoff, permits, notify_shutdown,
                    tx_count, db_strong, accepted >>

accept_err_mut ==
    /\ listener_pc = "accept"
    /\ IF backoff >= 64
       THEN listener_pc' = "failed" /\ run_pc' = "drop_notify"
       ELSE listener_pc' = "sleep" /\ run_pc' = run_pc
    /\ UNCHANGED << dbvars, psvars, hvars, backoff, permits, notify_shutdown,
                    tx_count, db_strong, accepted >>

\* server.rs 315-320: accept fails; after the 64 s wait the error is returned
\* and run leaves its select (server.rs 173-183)
accept_err ==
    /\ listener_pc = "accept"
    /\ IF backoff > 64
       THEN listener_pc' = "failed" /\ run_pc' = "drop_notify"
       ELSE listener_pc' = "sleep" /\ run_pc' = run_pc
    /\ UNCHANGED << dbvars, psvars, hvars, backoff, permits, notify_shutdown,
                    tx_count, db_strong, accepted >>

\* server.rs 324-327: the back-off sleep ends and the wait doubles
accept_sleep ==
    /\ listener_pc = "sleep"
    /\ backoff' = backoff * 2
    /\ listener_pc' = "accept"
    /\ UNCHANGED << dbvars, psvars, hvars, run_pc, permits, notify_shutdown,
                    tx_count, db_strong, accepted >>

shutdown_signal_mut ==
    /\ run_pc = "select"
    /\ run_pc' = "drop_notify"
    /\ UNCHANGED << dbvars, psvars, hvars, listener_pc, backoff, permits,
                    notify_shutdown, tx_count, db_strong, accepted >>

(***************************************************************************)
(* run (server.rs 138-215)                                                 *)
(***************************************************************************)
\* server.rs 184-187: the shutdown future completes; select drops server.run()
shutdown_signal ==
    /\ run_pc = "select"
    /\ run_pc' = "drop_notify"
    /\ listener_pc' = "cancelled"
    /\ UNCHANGED << dbvars, psvars, hvars, backoff, permits, notify_shutdown,
                    tx_count, db_strong, accepted >>

\* server.rs 203
run_drop_notify_shutdown ==
    /\ run_pc = "drop_notify"
    /\ notify_shutdown' = FALSE
    /\ run_pc' = "drop_tx"
    /\ UNCHANGED << dbvars, psvars, hvars, listener_pc, backoff, permits, tx_count,
                    db_strong, accepted >>

\* server.rs 205
run_drop_shutdown_complete_tx ==
    /\ run_pc = "drop_tx"
    /\ tx_count' = tx_count - 1
    /\ run_pc' = "recv"
    /\ UNCHANGED << dbvars, psvars, hvars, listener_pc, backoff, permits,
                    notify_shutdown, db_strong, accepted >>

\* server.rs 212: recv returns None once every sender is dropped
shutdown_complete_recv_mut == run_pc = "recv"
shutdown_complete_recv == run_pc = "recv" /\ tx_count = 0

run_shutdown_complete_rx ==
    /\ shutdown_complete_recv
    /\ run_pc' = "drop_db"
    /\ UNCHANGED << dbvars, psvars, hvars, listener_pc, backoff, permits,
                    notify_shutdown, tx_count, db_strong, accepted >>

\* server.rs 214-215: run returns; the rest of the Listener, its Db, is dropped
run_drop_db ==
    /\ run_pc = "drop_db"
    /\ db_drop
    /\ run_pc' = "drop_arc"
    /\ UNCHANGED << psvars, hvars, listener_pc, backoff, permits, notify_shutdown,
                    tx_count, db_strong, accepted >>

run_return ==
    /\ run_pc = "drop_arc"
    /\ arc_drop
    /\ run_pc' = "done"
    /\ UNCHANGED << dbvars, psvars, hvars, listener_pc, backoff, permits,
                    notify_shutdown, tx_count, accepted >>

(***************************************************************************)
(* Db::new (db.rs 92-108) and the start of run (server.rs 144-155)         *)
(***************************************************************************)
InitDb ==
    /\ entries = EmptyMap
    /\ expirations = EmptyMap
    /\ next_id = 0
    /\ shutdown = FALSE
    /\ background_task = FALSE
    /\ now = 0
    /\ worker_pc = "loop"
    /\ worker_when = None
    /\ pending_notify = 0
    /\ get_reply = << >>
    /\ applied = [k \in Keys |-> None]
    /\ mutex = None
    /\ pub_sub = EmptyMap

Init ==
    /\ InitDb
    /\ handlers = [h \in Handlers |-> no_handler]
    /\ run_pc = "select"
    /\ listener_pc = "acquire"
    /\ backoff = 1
    /\ permits = MAX_CONNECTIONS
    /\ notify_shutdown = TRUE
    /\ tx_count = 1
    /\ db_strong = 2
    /\ accepted = 0

NextDb ==
    \/ \E k \in Keys, v \in Values, e \in Durations : set(k, v, e)
    \/ notify_one
    \/ \E k \in Keys : get_apply(k)
    \/ worker_is_shutdown
    \/ worker_purge
    \/ worker_sleep_until
    \/ worker_notified
    \/ tick

SpecDb == Init /\ [][NextDb]_vars

(***************************************************************************)
(* Pub/sub: two connections that subscribe and unsubscribe and one that    *)
(* publishes, all three accepted and in command mode.                      *)
(***************************************************************************)
Subscribers == {1, 2}
Publisher == MaxHandlers
Connected == Subscribers \cup {Publisher}

InitPubSub ==
    /\ InitDb
    /\ handlers = [h \in Handlers |-> IF h \in Connected THEN new_handler ELSE no_handler]
    /\ run_pc = "select"
    /\ listener_pc = "acquire"
    /\ backoff = 1
    /\ permits = MAX_CONNECTIONS - Cardinality(Connected)
    /\ notify_shutdown = TRUE
    /\ tx_count = 1 + Cardinality(Connected)
    /\ db_strong = 2 + Cardinality(Connected)
    /\ accepted = Cardinality(Connected)

NextPubSub ==
    \/ \E h \in Subscribers, l \in SubscribeLists : handler_subscribe(h, l)
    \/ \E h \in Subscribers : subscribe_to_channel_db(h)
    \/ \E h \in Subscribers : subscribe_to_channel_insert(h)
    \/ \E h \in Subscribers, i \in 1 .. Cardinality(ChannelNames) : subscriptions_next(h, i)
    \/ \E h \in Subscribers, i \in 1 .. Cardinality(ChannelNames) : receiver_lagged(h, i)
    \/ \E h \in Subscribers, l \in SubscribeLists : sub_subscribe(h, l)
    \/ \E h \in Subscribers, l \in UnsubscribeLists : sub_unsubscribe(h, l)
    \/ \E h \in Subscribers : unsubscribe_channel(h)
    \/ \E h \in Subscribers : sub_eof(h)
    \/ \E c \in ChannelNames, m \in Payloads : handler_publish(Publisher, c, m)
    \/ \E h \in Connected : write_frame_done(h)

SpecPubSub == InitPubSub /\ [][NextPubSub]_vars

(***************************************************************************)
(* Lag: a publisher that sends more messages than a channel holds, and     *)
(* subscribers that read them late or not at all.                          *)
(***************************************************************************)
InitLag ==
    /\ InitDb
    /\ handlers = [h \in Handlers |->
          IF h \in Subscribers THEN new_handler
          ELSE IF h = Publisher
               THEN [new_handler EXCEPT !.budget = MaxFrames + ChannelCapacity]
               ELSE no_handler]
    /\ run_pc = "select"
    /\ listener_pc = "acquire"
    /\ backoff = 1
    /\ permits = MAX_CONNECTIONS - Cardinality(Connected)
    /\ notify_shutdown = TRUE
    /\ tx_count = 1 + Cardinality(Connected)
    /\ db_strong = 2 + Cardinality(Connected)
    /\ accepted = Cardinality(Connected)

NextLag ==
    \/ \E h \in Subscribers, l \in SubscribeLists : handler_subscribe(h, l)
    \/ \E h \in Subscribers : subscribe_to_channel_db(h)
    \/ \E h \in Subscribers : subscribe_to_channel_insert(h)
    \/ \E h \in Subscribers, i \in 1 .. Cardinality(ChannelNames) : subscriptions_next(h, i)
    \/ \E h \in Subscribers, i \in 1 .. Cardinality(ChannelNames) : receiver_lagged(h, i)
    \/ \E c \in ChannelNames, m \in Payloads : handler_publish(Publisher, c, m)
    \/ \E h \in Connected : write_frame_done(h)

SpecLag == InitLag /\ [][NextLag]_vars

(***************************************************************************)
(* The mutex step by step.  Every function of Db locks Shared::state on    *)
(* entry (db.rs 122, 132, 207, 237, 268, 286, 328) and is not async: the   *)
(* MutexGuard is dropped when the function returns, or by drop(state)      *)
(* before notify_one (db.rs 188, 275).  Here lock() and the locked body    *)
(* are separate steps, so that other tasks run while one holds the guard.  *)
(***************************************************************************)
LockClients == {1, 2}

DbCall(fn, key, value, expire) == [fn |-> fn, key |-> key, value |-> value, expire |-> expire]

DbCalls ==
    {DbCall("get", "k1", "", None), DbCall("publish", "a", "m1", None),
     DbCall("subscribe", "a", "", None)}
        \cup {DbCall("set", "k1", "v1", e) : e \in {None, Some(0), Some(1)}}

\* the dbvars that a step which only takes or waits for the mutex leaves alone
state_unchanged ==
    UNCHANGED << entries, expirations, next_id, shutdown, background_task, now,
                 worker_pc, worker_when, pending_notify, get_reply, applied >>

\* server.rs 351, 374, 393: a frame is read and Command::apply calls into Db
apply_call(h, c) ==
    /\ handlers[h].pc = "select"
    /\ handlers[h].frames < handlers[h].budget
    /\ handlers' = [handlers EXCEPT ![h] =
          [@ EXCEPT !.frames = @ + 1, !.call = Some(c), !.pc = "db"]]
    /\ UNCHANGED << dbvars, psvars, srvvars >>

\* self.shared.state.lock().unwrap() returns the guard to a handler
mutex_lock(h) ==
    /\ handlers[h].pc = "db"
    /\ mutex = None
    /\ mutex' = Some(h)
    /\ handlers' = [handlers EXCEPT ![h].pc = "locked"]
    /\ state_unchanged
    /\ UNCHANGED << psvars, srvvars >>

\* Db::get (db.rs 116-124) from the lock to its return, and Get::apply writes
locked_get(h) ==
    /\ handlers[h].pc = "locked"
    /\ mutex = Some(h)
    /\ handlers[h].call[1].fn = "get"
    /\ mutex' = None
    /\ handlers' = [handlers EXCEPT ![h] =
          write_frame([@ EXCEPT !.call = None],
                      IF get(handlers[h].call[1].key) # None
                      THEN Bulk(get(handlers[h].call[1].key)[1]) ELSE Null, "select")]
    /\ state_unchanged
    /\ UNCHANGED << psvars, srvvars >>

\* Db::set (db.rs 131-196) from the lock to drop(state), and Set::apply writes
locked_set(h) ==
    /\ handlers[h].pc = "locked"
    /\ mutex = Some(h)
    /\ handlers[h].call[1].fn = "set"
    /\ db_set(handlers[h].call[1].key, handlers[h].call[1].value, handlers[h].call[1].expire)
    /\ handlers' = [handlers EXCEPT ![h] =
          write_frame([@ EXCEPT !.call = None], Simple("OK"), "select")]
    /\ UNCHANGED << psvars, srvvars >>

\* Db::publish (db.rs 232-251) from the lock to its return, and Publish::apply
\* writes the number of receivers
locked_publish(h) ==
    /\ handlers[h].pc = "locked"
    /\ mutex = Some(h)
    /\ handlers[h].call[1].fn = "publish"
    /\ mutex' = None
    /\ LET r == publish(pub_sub, handlers[h].call[1].key, handlers[h].call[1].value)
       IN /\ pub_sub' = r.pub_sub
          /\ handlers' = [handlers EXCEPT ![h] =
                write_frame([@ EXCEPT !.call = None], Integer(r.ret), "select")]
    /\ state_unchanged
    /\ UNCHANGED << srvvars >>

\* Db::subscribe (db.rs 203-230) from the lock to its return, inside
\* subscribe_to_channel (subscribe.rs 183)
locked_subscribe(h) ==
    /\ handlers[h].pc = "locked"
    /\ mutex = Some(h)
    /\ handlers[h].call[1].fn = "subscribe"
    /\ mutex' = None
    /\ LET r == subscribe(pub_sub, handlers[h].call[1].key)
       IN /\ pub_sub' = r.pub_sub
          /\ handlers' = [handlers EXCEPT ![h] =
                [@ EXCEPT !.call = None, !.subscriptions = << >>, !.channels = << >>,
                          !.requested = << handlers[h].call[1].key >>, !.acked = << >>,
                          !.new_rx = Some(r.rx), !.pc = "insert"]]
    /\ state_unchanged
    /\ UNCHANGED << srvvars >>

\* the worker takes the guard in is_shutdown (db.rs 328) or in
\* purge_expired_keys (db.rs 286)
worker_lock ==
    /\ worker_pc \in {"loop", "purge"}
    /\ mutex = None
    /\ mutex' = Some(Worker)
    /\ state_unchanged
    /\ UNCHANGED << psvars, hvars, srvvars >>

InitLock ==
    /\ InitDb
    /\ handlers = [h \in Handlers |->
          IF h \in LockClients THEN [new_handler EXCEPT !.budget = 1] ELSE no_handler]
    /\ run_pc = "select"
    /\ listener_pc = "acquire"
    /\ backoff = 1
    /\ permits = MAX_CONNECTIONS - Cardinality(LockClients)
    /\ notify_shutdown = TRUE
    /\ tx_count = 1 + Cardinality(LockClients)
    /\ db_strong = 2 + Cardinality(LockClients)
    /\ accepted = Cardinality(LockClients)

NextLock ==
    \/ \E h \in LockClients, c \in DbCalls : apply_call(h, c)
    \/ \E h \in LockClients : mutex_lock(h)
    \/ \E h \in LockClients : locked_get(h)
    \/ \E h \in LockClients : locked_set(h)
    \/ \E h \in LockClients : locked_publish(h)
    \/ \E h \in LockClients : locked_subscribe(h)
    \/ \E h \in LockClients : subscribe_to_channel_insert(h)
    \/ \E h \in LockClients : subscriptions_next(h, 1)
    \/ \E h \in LockClients : write_frame_done(h)
    \/ worker_lock
    \/ mutex = Some(Worker) /\ worker_is_shutdown
    \/ mutex = Some(Worker) /\ worker_purge
    \/ worker_sleep_until
    \/ worker_notified
    \/ notify_one
    \/ tick

SpecLock == InitLock /\ [][NextLock]_vars

(***************************************************************************)
(* Writes: subscribers whose commands have several reply frames, while a   *)
(* publisher makes messages arrive on their channels.                      *)
(***************************************************************************)
WriteLists == {<< "a" >>, << "a", "b" >>}

Writers == {1}

InitWrites ==
    /\ InitDb
    /\ handlers = [h \in Handlers |->
          IF h \in Writers \cup {Publisher} THEN new_handler ELSE no_handler]
    /\ run_pc = "select"
    /\ listener_pc = "acquire"
    /\ backoff = 1
    /\ permits = MAX_CONNECTIONS - Cardinality(Writers) - 1
    /\ notify_shutdown = TRUE
    /\ tx_count = 2 + Cardinality(Writers)
    /\ db_strong = 3 + Cardinality(Writers)
    /\ accepted = 1 + Cardinality(Writers)

NextWrites ==
    \/ \E h \in Writers, l \in WriteLists : handler_subscribe(h, l)
    \/ \E h \in Writers : subscribe_to_channel_db(h)
    \/ \E h \in Writers : subscribe_to_channel_insert(h)
    \/ \E h \in Writers, i \in 1 .. Cardinality(ChannelNames) : subscriptions_next(h, i)
    \/ \E h \in Writers, i \in 1 .. Cardinality(ChannelNames) : receiver_lagged(h, i)
    \/ \E h \in Writers, l \in WriteLists : sub_subscribe(h, l)
    \/ \E h \in Writers : sub_unsubscribe(h, << >>)
    \/ \E h \in Writers : unsubscribe_channel(h)
    \/ \E c \in ChannelNames : handler_publish(Publisher, c, "m1")
    \/ \E h \in Writers \cup {Publisher} : write_frame_done(h)

SpecWrites == InitWrites /\ [][NextWrites]_vars

\* Expiration alone: the SETs, the worker and the clock.  The value written
\* plays no part in expiration, so one value is enough here.
NextExpire ==
    \/ \E k \in Keys, e \in Durations : set(k, "v1", e)
    \/ notify_one
    \/ worker_is_shutdown
    \/ worker_purge
    \/ worker_sleep_until
    \/ worker_notified
    \/ tick

SpecExpire == Init /\ [][NextExpire]_vars

\* The runtime schedules the worker task and every handler that is between
\* the lock release and notify_one; time advances.
FairSpecDb ==
    /\ Init /\ [][NextExpire]_vars
    /\ WF_vars(worker_is_shutdown)
    /\ WF_vars(worker_purge)
    /\ WF_vars(worker_sleep_until)
    /\ WF_vars(worker_notified)
    /\ WF_vars(notify_one)
    /\ WF_vars(tick)

(***************************************************************************)
(* The server: the listener accepts connections whose handlers read GET    *)
(* and SUBSCRIBE frames, until the shutdown future completes or accept     *)
(* fails for good.                                                         *)
(***************************************************************************)
handler_step(h) ==
    \/ handler_get(h, "k1")
    \/ handler_subscribe(h, << "a" >>)
    \/ subscribe_to_channel_db(h)
    \/ subscribe_to_channel_insert(h)
    \/ write_frame_done(h)
    \/ handler_eof(h)
    \/ sub_eof(h)
    \/ handler_shutdown_recv(h)
    \/ sub_shutdown_recv(h)
    \/ handler_drop(h)
    \/ handler_drop_db(h)
    \/ handler_drop_arc(h)
    \/ handler_drop_tx(h)

NextServer ==
    \/ listener_acquire
    \/ accept_ok
    \/ accept_err
    \/ accept_sleep
    \/ shutdown_signal
    \/ run_drop_notify_shutdown
    \/ run_drop_shutdown_complete_tx
    \/ run_shutdown_complete_rx
    \/ run_drop_db
    \/ run_return
    \/ \E h \in Handlers : handler_step(h)

SpecServer == Init /\ [][NextServer]_vars

\* The accept loop alone: connections are accepted, end by EOF and return
\* their permits, while accept fails and backs off any number of times.
NextAccept ==
    \/ listener_acquire
    \/ accept_ok
    \/ accept_err
    \/ accept_sleep
    \/ shutdown_signal
    \/ \E h \in Handlers :
          \/ handler_eof(h)
          \/ handler_drop(h)
          \/ handler_drop_db(h)
          \/ handler_drop_arc(h)
          \/ handler_drop_tx(h)

SpecAccept == Init /\ [][NextAccept]_vars

\* Shutdown by the external future alone: accept does not fail here.
NextShutdown ==
    \/ listener_acquire
    \/ accept_ok
    \/ shutdown_signal
    \/ run_drop_notify_shutdown
    \/ run_drop_shutdown_complete_tx
    \/ run_shutdown_complete_rx
    \/ run_drop_db
    \/ run_return
    \/ \E h \in Handlers : handler_step(h)

\* the steps of run after its select (server.rs 203-215)
run_finish ==
    \/ run_drop_notify_shutdown
    \/ run_drop_shutdown_complete_tx
    \/ run_shutdown_complete_rx
    \/ run_drop_db
    \/ run_return

\* the steps of a handler task that wait for no peer and no signal
handler_progress(h) ==
    \/ write_frame_done(h)
    \/ subscribe_to_channel_db(h)
    \/ subscribe_to_channel_insert(h)
    \/ handler_drop(h)
    \/ handler_drop_db(h)
    \/ handler_drop_arc(h)
    \/ handler_drop_tx(h)

\* a select takes its shutdown branch (server.rs 352, subscribe.rs 154)
select_shutdown(h) == handler_shutdown_recv(h) \/ sub_shutdown_recv(h)

\* The runtime schedules run and every handler task; a frame being written
\* is written; a select whose shutdown branch is ready again and again takes
\* it in the end.  Nothing obliges a peer to send a frame or to close.
FairSpecServer ==
    /\ Init /\ [][NextShutdown]_vars
    /\ WF_vars(run_finish)
    /\ \A h \in Handlers : WF_vars(handler_progress(h)) /\ SF_vars(select_shutdown(h))

(***************************************************************************)
(* Admission: more peers connect than there are permits; the handlers end  *)
(* by EOF, by an error or by shutdown.                                      *)
(***************************************************************************)
accept_admit == accept(MaxHandlers)

NextAdmission ==
    \/ listener_acquire
    \/ accept_admit
    \/ accept_err
    \/ accept_sleep
    \/ shutdown_signal
    \/ run_drop_notify_shutdown
    \/ run_drop_shutdown_complete_tx
    \/ run_shutdown_complete_rx
    \/ run_drop_db
    \/ run_return
    \/ \E h \in Handlers :
          \/ handler_eof(h)
          \/ handler_error(h)
          \/ handler_shutdown_recv(h)
          \/ handler_drop(h)
          \/ handler_drop_db(h)
          \/ handler_drop_arc(h)
          \/ handler_drop_tx(h)

SpecAdmission == Init /\ [][NextAdmission]_vars

(***************************************************************************)
(* The protocol: one accepted connection sends frames, well formed or not, *)
(* in command mode and in subscriber mode.                                 *)
(***************************************************************************)
Client == CHOOSE h \in Handlers : \A g \in Handlers : h <= g

InitProtocol ==
    /\ InitDb
    /\ handlers = [h \in Handlers |->
          IF h = Client THEN [new_handler EXCEPT !.budget = MaxFrames + 1] ELSE no_handler]
    /\ run_pc = "select"
    /\ listener_pc = "acquire"
    /\ backoff = 1
    /\ permits = MAX_CONNECTIONS - 1
    /\ notify_shutdown = TRUE
    /\ tx_count = 2
    /\ db_strong = 3
    /\ accepted = 1

NextProtocol ==
    \/ \E f \in ReceivedFrames : handler_read(Client, f)
    \/ \E f \in ReceivedFrames : sub_read(Client, f)
    \/ subscribe_to_channel_db(Client)
    \/ subscribe_to_channel_insert(Client)
    \/ unsubscribe_channel(Client)
    \/ write_frame_done(Client)
    \/ handler_eof(Client)
    \/ sub_eof(Client)
    \/ handler_error(Client)
    \/ handler_drop(Client)
    \/ handler_drop_db(Client)
    \/ handler_drop_arc(Client)
    \/ handler_drop_tx(Client)

SpecProtocol == InitProtocol /\ [][NextProtocol]_vars

(***************************************************************************)
(* The codec alone: one connection, any frame of CodecFrames written once. *)
(***************************************************************************)
NextCodec ==
    \/ \E frame \in CodecFrames : connection_write_frame(Client, frame)
    \/ \E n \in 1 .. MaxChunk : read_buf(Client, n)
    \/ read_frame_some(Client)
    \/ read_frame_invalid(Client)
    \/ read_frame_eof(Client)

SpecCodec == InitProtocol /\ [][NextCodec]_vars

(***************************************************************************)
(* Commands alone: a client sends up to MaxFrames commands, each parsed by *)
(* the server before the next is built.                                    *)
(***************************************************************************)
NextCommand ==
    \/ \E c \in ClientCommands : client_into_frame(Client, c)
    \/ server_from_frame(Client)

SpecCommand == InitProtocol /\ [][NextCommand]_vars

(***************************************************************************)
(* Isolation: two accepted connections, each of which may fail, and the    *)
(* listener.                                                               *)
(***************************************************************************)
Clients == {1, 2}
ClientFrames ==
    { << "GET", "k1" >>, << "Get" >>, << "SET", "k1", "v1" >>,
      << "PUBLISH", "a", "m1" >>, << "SUBSCRIBE", "a" >>, << "UNSUBSCRIBE" >>,
      << "Foo" >> }

InitIsolation ==
    /\ InitDb
    /\ handlers = [h \in Handlers |-> IF h \in Clients THEN new_handler ELSE no_handler]
    /\ run_pc = "select"
    /\ listener_pc = "acquire"
    /\ backoff = 1
    /\ permits = MAX_CONNECTIONS - Cardinality(Clients)
    /\ notify_shutdown = TRUE
    /\ tx_count = 1 + Cardinality(Clients)
    /\ db_strong = 2 + Cardinality(Clients)
    /\ accepted = Cardinality(Clients)

NextIsolation ==
    \/ \E h \in Clients, f \in ClientFrames : handler_read(h, f)
    \/ \E h \in Clients, f \in ClientFrames : sub_read(h, f)
    \/ \E h \in Clients : subscribe_to_channel_db(h)
    \/ \E h \in Clients : subscribe_to_channel_insert(h)
    \/ \E h \in Clients : unsubscribe_channel(h)
    \/ \E h \in Clients, i \in 1 .. Cardinality(ChannelNames) : subscriptions_next(h, i)
    \/ \E h \in Clients : write_frame_done(h)
    \/ \E h \in Clients : handler_error(h)
    \/ \E h \in Clients : handler_drop(h)
    \/ listener_acquire

SpecIsolation == InitIsolation /\ [][NextIsolation]_vars

(***************************************************************************)
(* Teardown: two accepted connections write keys and end, by EOF or by     *)
(* shutdown; run finishes; the expiration worker runs all along.           *)
(***************************************************************************)
\* each peer sends one SET at most
InitTeardown ==
    /\ InitDb
    /\ handlers = [h \in Handlers |->
          IF h \in Clients THEN [new_handler EXCEPT !.budget = 1] ELSE no_handler]
    /\ run_pc = "select"
    /\ listener_pc = "acquire"
    /\ backoff = 1
    /\ permits = MAX_CONNECTIONS - Cardinality(Clients)
    /\ notify_shutdown = TRUE
    /\ tx_count = 1 + Cardinality(Clients)
    /\ db_strong = 2 + Cardinality(Clients)
    /\ accepted = Cardinality(Clients)

NextTeardown ==
    \/ \E h \in Clients, e \in {None, Some(1)} : handler_set(h, "k1", "v1", e)
    \/ \E h \in Clients : write_frame_done(h)
    \/ \E h \in Clients : handler_eof(h)
    \/ \E h \in Clients : handler_shutdown_recv(h)
    \/ \E h \in Clients : handler_drop(h)
    \/ \E h \in Clients : handler_drop_db(h)
    \/ \E h \in Clients : handler_drop_arc(h)
    \/ \E h \in Clients : handler_drop_tx(h)
    \/ shutdown_signal
    \/ run_drop_notify_shutdown
    \/ run_drop_shutdown_complete_tx
    \/ run_shutdown_complete_rx
    \/ run_drop_db
    \/ run_return
    \/ notify_one
    \/ worker_is_shutdown
    \/ worker_purge
    \/ worker_sleep_until
    \/ worker_notified
    \/ tick

\* The runtime schedules the worker task, and a task that has released the
\* lock in Drop for Db goes on to call notify_one.
FairSpecTeardown ==
    /\ InitTeardown /\ [][NextTeardown]_vars
    /\ WF_vars(notify_one)
    /\ WF_vars(worker_is_shutdown)
    /\ WF_vars(worker_purge)
    /\ WF_vars(worker_notified)

(***************************************************************************)
(* Claims about the database                                               *)
(***************************************************************************)
expired(k) == /\ k \in DOMAIN entries
              /\ entries[k].expires_at # None
              /\ entries[k].expires_at[1] <= now

\* C1: in every reachable state the entries map and the expirations index
\* agree: an entry with expires_at = Some(d) has the row (d, id) -> key and no
\* other row refers to it, and every row (d, id) -> key refers to the entry
\* stored under key, with that id and that deadline.
C1_EntriesExpirationsAgree ==
    /\ \A k \in DOMAIN entries : entries[k].expires_at # None =>
          /\ << entries[k].expires_at[1], entries[k].id >> \in DOMAIN expirations
          /\ Cardinality({p \in DOMAIN expirations :
                             expirations[p] = k \/ p[2] = entries[k].id}) = 1
    /\ \A p \in DOMAIN expirations :
          /\ expirations[p] \in DOMAIN entries
          /\ entries[expirations[p]].id = p[2]
          /\ entries[expirations[p]].expires_at = Some(p[1])

\* a key was purged by the worker, and another key holds an entry with a
\* deadline that replaced an earlier entry
C1_Witness ==
    \E k1, k2 \in Keys :
        /\ applied[k1] # None /\ k1 \notin DOMAIN entries
        /\ k2 \in DOMAIN entries /\ entries[k2].expires_at # None
        /\ next_id = 3 /\ entries[k2].id = 2

\* C2: no stale read after SET: a GET of k replies with the value of the
\* latest SET applied to k, or with Null (the entry expired); never with a
\* value k held before that SET.
C2_NoStaleRead ==
    [][\A k \in Keys : get_apply(k) =>
          \/ get_reply'[2] = Null
          \/ applied[k] # None /\ get_reply'[2] = Bulk(applied[k][1])]_vars

\* k was set twice and the GET replied with the stored (latest) value
C2_Witness ==
    \E k \in Keys :
        /\ k \in DOMAIN entries /\ entries[k].id = 1 /\ next_id = 2
        /\ \A o \in Keys \ {k} : applied[o] = None
        /\ get_reply = << k, Bulk(entries[k].data) >>

C4_EventualExpiration ==
    /\ \A k \in Keys, i \in 0 .. (MaxSets - 1) :
          (k \in DOMAIN entries /\ entries[k].id = i /\ entries[k].expires_at # None)
             ~> (get(k) = None \/ entries[k].id # i)
    /\ [][\A k \in DOMAIN entries :
             (k \notin DOMAIN entries') =>
                 (entries[k].expires_at # None /\ entries[k].expires_at[1] <= now)]_vars

\* an entry with a deadline was purged while another SET was applied
C4_Witness ==
    \E k \in Keys :
        /\ applied[k] # None /\ k \notin DOMAIN entries
        /\ next_id >= 2 /\ worker_pc = "notified"

(***************************************************************************)
(* Claims about pub/sub                                                    *)
(***************************************************************************)
\* the receivers of channel c that exist: those in the handlers' StreamMaps
\* and those db.subscribe returned that are on their way into one
receivers(c) ==
    {<< h, "map" >> : h \in {x \in Handlers : index_of(handlers[x].subscriptions, c) # 0}}
    \cup {<< h, "new" >> : h \in {x \in Handlers : handlers[x].new_rx # None
                                                   /\ handlers[x].new_rx[1].key = c}}

next_of(r, c) ==
    IF r[2] = "new" THEN handlers[r[1]].new_rx[1].next
    ELSE LET sm == handlers[r[1]].subscriptions
         IN sm[index_of(sm, c)].next

C6_PublishCount ==
    [][\A c \in ChannelNames, m \in Payloads : handler_publish(Publisher, c, m) =>
          LET n == Cardinality(receivers(c))
          IN /\ handlers'[Publisher].out = Integer(n)
             /\ n = 0 => pub_sub' = pub_sub
             /\ n > 0 =>
                   /\ pub_sub'[c].pos = pub_sub[c].pos + 1
                   /\ pub_sub'[c].buffer[Len(pub_sub'[c].buffer)] = m
                   /\ \A r \in receivers(c) : next_of(r, c) <= pub_sub[c].pos]_vars

\* a publish found two receivers on its channel
C6_Witness ==
    /\ handlers[Publisher].out = Integer(2)
    /\ handlers[Publisher].pc = "write"

\* C7: publish never adds a key to pub_sub and leaves entries, expirations
\* and next_id unchanged; to a channel without subscribers it replies 0.
C7_PublishAllocatesNothing ==
    [][\A c \in ChannelNames, m \in Payloads : handler_publish(Publisher, c, m) =>
          /\ DOMAIN pub_sub' = DOMAIN pub_sub
          /\ UNCHANGED << entries, expirations, next_id >>
          /\ receivers(c) = {} =>
                handlers'[Publisher].out = Integer(0) /\ pub_sub' = pub_sub]_vars

\* a publish replied 0 while pub_sub holds no channel
C7_Witness ==
    /\ handlers[Publisher].out = Integer(0)
    /\ handlers[Publisher].pc = "write"
    /\ DOMAIN pub_sub = {}

\* C8 as claimed: a channel name is in pub_sub only while a receiver
\* references it.
C8_ChannelOnlyWhileSubscribed ==
    \A c \in DOMAIN pub_sub : receivers(c) # {}

\* C8 as amended: a channel name enters pub_sub with the first subscribe to it
\* and is never removed: after its last subscriber has unsubscribed or
\* disconnected the name stays in pub_sub, its sender counting no receiver.
C8_ChannelNeverRemoved ==
    /\ [][/\ DOMAIN pub_sub \subseteq DOMAIN pub_sub'
          /\ \A c \in DOMAIN pub_sub' \ DOMAIN pub_sub :
                \E h \in Handlers : handlers'[h].new_rx = Some([key |-> c, next |-> 0])]_vars
    /\ [](\A c \in DOMAIN pub_sub : pub_sub[c].rx_cnt = Cardinality(receivers(c)))

\* every subscriber of channel a has unsubscribed or disconnected and the
\* channel is still in pub_sub
C8_Witness ==
    /\ "a" \in DOMAIN pub_sub
    /\ receivers("a") = {}
    /\ pub_sub["a"].rx_cnt = 0
    /\ \E h \in Subscribers : handlers[h].pc = "returned"
    /\ \E h \in Subscribers :
          handlers[h].pc = "sub_select" /\ handlers[h].out = make_unsubscribe_frame("a", 0)

(***************************************************************************)
(* Claims about graceful shutdown                                          *)
(***************************************************************************)
\* a spawned handler task that has not finished: it has not yet dropped its
\* completion sender
running(h) == handlers[h].pc \notin {"none", "dropped"}

\* C9: run() does not get past its completion wait, and so does not return,
\* while a spawned handler is still running: when the wait has finished every
\* handler has dropped its completion sender, on the shutdown-future path and
\* on the fatal-accept-error path alike.
C9_RunWaitsForHandlers ==
    /\ run_pc \in {"drop_db", "drop_arc", "done"} => tx_count = 0 /\ \A h \in Handlers : ~running(h)
    /\ tx_count = Cardinality({h \in Handlers : running(h)})
                  + (IF run_pc \in {"select", "drop_notify", "drop_tx"} THEN 1 ELSE 0)

\* run() returned after a fatal accept error, with handlers that had been
\* spawned
C9_Witness ==
    /\ run_pc = "done"
    /\ listener_pc = "failed"
    /\ accepted = MaxAccepts
    /\ \A h \in 1 .. accepted : handlers[h].pc = "dropped"

\* C10 as claimed: once the shutdown signal has been sent to the handlers,
\* no handler reads another command.
C10_NoReadAfterSignal ==
    [][~notify_shutdown => \A h \in Handlers : handlers'[h].frames = handlers[h].frames]_vars

\* C10 as amended: after the shutdown future completes every accepted handler
\* eventually returns and finishes, and run() eventually returns; a handler
\* whose select has taken the shutdown branch reads no further command.
C10_ShutdownLiveness ==
    /\ (listener_pc = "cancelled") ~> (run_pc = "done" /\ \A h \in Handlers : ~running(h))
    /\ [][\A h \in Handlers :
             handlers[h].shutdown => handlers'[h].frames = handlers[h].frames]_vars

\* run() returned after the shutdown future completed; one handler left from
\* command mode and one from subscriber mode, each on its shutdown branch
C10_Witness ==
    /\ run_pc = "done"
    /\ listener_pc = "cancelled"
    /\ \E h1, h2 \in Handlers :
          /\ handlers[h1].shutdown /\ handlers[h1].out = Null
          /\ handlers[h2].shutdown /\ handlers[h2].out = make_subscribe_frame("a", 1)

(***************************************************************************)
(* Claims about admission                                                  *)
(***************************************************************************)
\* a handler whose Drop has not run yet: it still owns its permit
live(h) == handlers[h].pc \notin {"none", "drop_db", "drop_arc", "drop_tx", "dropped"}
live_handlers == Cardinality({h \in Handlers : live(h)})

\* C11: at any time at most MAX_CONNECTIONS handlers are live, and a
\* connection is accepted only with a permit in hand: the connection after
\* the MAX_CONNECTIONS-th is accepted only after a live handler has ended.
C11_AtMostMaxConnections ==
    /\ live_handlers <= MAX_CONNECTIONS
    /\ permits >= 0
    /\ listener_pc \in {"accept", "sleep"} => live_handlers < MAX_CONNECTIONS

\* more connections than permits have been accepted, MAX_CONNECTIONS of them
\* are live and the listener waits for a permit
C11_Witness ==
    /\ accepted > MAX_CONNECTIONS
    /\ live_handlers = MAX_CONNECTIONS
    /\ permits = 0
    /\ listener_pc = "acquire"

\* the listener has taken a permit and waits in accept (server.rs 248-254)
listener_holds == IF listener_pc \in {"accept", "sleep"} THEN 1 ELSE 0

\* C12 as claimed: in every reachable state available permits + live handlers
\* + (1 if the listener holds a permit while waiting in accept) is
\* MAX_CONNECTIONS.
C12_PermitEquation ==
    permits + live_handlers + listener_holds = MAX_CONNECTIONS

\* C12 as amended: every handler returns exactly one permit when it ends, on
\* every exit path, and permits are never duplicated; the equation holds
\* while run is in its select.  The permit taken for an accept that the
\* shutdown or the fatal accept error interrupts is not returned: from then on
\* permits + live handlers is MAX_CONNECTIONS or MAX_CONNECTIONS - 1.
C12_PermitConservation ==
    /\ [](run_pc = "select" => C12_PermitEquation)
    /\ [](permits + live_handlers \in {MAX_CONNECTIONS - 1, MAX_CONNECTIONS})
    /\ [](listener_pc = "failed" => permits + live_handlers = MAX_CONNECTIONS - 1)
    /\ [][/\ \A h \in Handlers : (live(h) /\ ~live(h)') => permits' = permits + 1
          /\ permits' > permits =>
                Cardinality({h \in Handlers : live(h) /\ ~live(h)'}) = 1]_vars

\* handlers have ended by error and by shutdown and returned their permits;
\* the permit of the interrupted accept is missing
C12_Witness ==
    /\ listener_pc = "cancelled"
    /\ permits = MAX_CONNECTIONS - 1
    /\ \E h1, h2 \in Handlers :
          /\ handlers[h1].pc = "dropped" /\ handlers[h1].shutdown
          /\ handlers[h2].pc = "dropped" /\ ~handlers[h2].shutdown

(***************************************************************************)
(* Claims about the protocol                                               *)
(***************************************************************************)
\* the handler is inside Subscribe::apply
subscriber_mode(hd) ==
    \/ hd.pc \in {"subscribe", "insert", "sub_select", "unsubscribe"}
    \/ hd.pc = "write" /\ hd.wnext \in {"subscribe", "sub_select", "unsubscribe"}

\* the frames from_frame parses to a command other than SUBSCRIBE/UNSUBSCRIBE
OtherCommands ==
    {f \in ReceivedFrames : parsed[f].cmd \in {"Get", "Set", "Publish", "Unknown"}}

C14_ClosesOnRecognized ==
    [][\A f \in ReceivedFrames :
          (parsed[f].cmd \in {"Get", "Set", "Publish"} /\ sub_read(Client, f))
             => handlers'[Client].pc = "returned"]_vars

\* C14 as amended: in subscriber mode SUBSCRIBE and UNSUBSCRIBE are carried
\* out; a GET, SET or PUBLISH is answered with the unknown-command error that
\* names it get, set or pub, an unrecognized name with the error that names
\* it, and in each case the connection stays open in subscriber mode.
C14_OtherCommandsAnswered ==
    [][\A f \in ReceivedFrames :
          sub_read(Client, f) =>
             LET c == parsed[f]
                 hd == handlers'[Client]
                 answered(name) == /\ hd.out = Error(<< "ERR unknown command", name >>)
                                   /\ hd.pc = "write"
                                   /\ hd.wnext = "sub_select"
             IN /\ c.cmd = "Get" => answered("get")
                /\ c.cmd = "Set" => answered("set")
                /\ c.cmd = "Publish" => answered("pub")
                /\ c.cmd = "Unknown" => answered(c.command_name)
                /\ c.cmd = "Subscribe" => hd.pc = "subscribe" /\ hd.channels = c.channels
                /\ c.cmd = "Unsubscribe" => hd.pc \in {"unsubscribe", "sub_select"}]_vars

\* a subscribed connection has sent a PUBLISH, got the error and waits in
\* subscriber mode with its subscription
C14_Witness ==
    /\ handlers[Client].pc = "sub_select"
    /\ handlers[Client].subscriptions # << >>
    /\ handlers[Client].out = unknown_response("pub")

\* C15 as claimed: an UNSUBSCRIBE read in command mode is answered with an
\* Error frame.
C15_ErrorFrameWritten ==
    [][\A f \in ReceivedFrames :
          (parsed[f].cmd = "Unsubscribe" /\ handler_read(Client, f))
             => handlers'[Client].pc = "write" /\ handlers'[Client].out.type = "Error"]_vars

\* C15 as amended: an UNSUBSCRIBE read in command mode is answered with no
\* frame at all: Handler::run returns the error of apply, which is logged.
C15_NoReplyToUnsubscribe ==
    [][\A f \in ReceivedFrames :
          (parsed[f].cmd = "Unsubscribe" /\ handler_read(Client, f))
             => /\ handlers'[Client].out = handlers[Client].out
                /\ handlers'[Client].pc # "write"
                /\ handlers'[Client].err =
                      Some("'Unsubscribe' is unsupported in this context")]_vars

\* a SET was answered, then an UNSUBSCRIBE ended the handler with its error;
\* the last frame written is still the reply to the SET
C15_Witness ==
    /\ handlers[Client].err = Some("'Unsubscribe' is unsupported in this context")
    /\ handlers[Client].out = Simple("OK")
    /\ handlers[Client].frames = 2

\* Handler::run has returned: the task ends and drops the connection
ended(hd) == hd.pc \in {"returned", "drop_db", "drop_arc", "drop_tx", "dropped"}

\* C16: an UNSUBSCRIBE read in command mode ends the handler, and the
\* connection is closed: Handler::run returns at once and from then on the
\* handler reads no frame and writes none.
C16_UnsubscribeEndsHandler ==
    [][/\ \A f \in ReceivedFrames :
             (parsed[f].cmd = "Unsubscribe" /\ handler_read(Client, f))
                => handlers'[Client].pc = "returned"
       /\ \A h \in Handlers :
             handlers[h].err = Some("'Unsubscribe' is unsupported in this context")
                => /\ ended(handlers[h]) /\ ended(handlers'[h])
                   /\ handlers'[h].frames = handlers[h].frames
                   /\ handlers'[h].out = handlers[h].out]_vars

\* the first frame was an UNSUBSCRIBE and the handler task is gone, the peer
\* having more to send
C16_Witness ==
    /\ handlers[Client].err = Some("'Unsubscribe' is unsupported in this context")
    /\ handlers[Client].pc = "dropped"
    /\ handlers[Client].frames = 1
    /\ handlers[Client].frames < handlers[Client].budget

\* the frames from_frame rejects
BadFrames == {f \in ReceivedFrames : parsed[f].cmd = "Err"}

\* C17 as claimed: a frame that fails to parse is answered with an Error
\* frame before the connection is closed.
C17_ErrorReplyThenClose ==
    [][\A f \in BadFrames :
          handler_read(Client, f)
             => handlers'[Client].pc = "write" /\ handlers'[Client].out.type = "Error"]_vars

\* C17 as amended: a frame that fails to parse (a recognized command with a
\* missing argument, or with array entries left over) closes the connection
\* without any reply: Handler::run returns the parse error, in command mode
\* and in subscriber mode alike, and the database is not changed.
C17_ParseErrorCloses ==
    [][\A f \in BadFrames :
          (handler_read(Client, f) \/ sub_read(Client, f))
             => /\ handlers'[Client].pc = "returned"
                /\ handlers'[Client].out = handlers[Client].out
                /\ handlers'[Client].err = Some(parsed[f].msg)
                /\ handlers'[Client].subscriptions = << >>
                /\ UNCHANGED dbvars]_vars

\* GET with two keys was the first frame: the handler is gone with the
\* parse error and nothing was written
C17_Witness ==
    /\ handlers[Client].err =
          Some("protocol error; expected end of frame, but there was more")
    /\ handlers[Client].pc = "dropped"
    /\ handlers[Client].out = NoFrame

(***************************************************************************)
(* Claims about error isolation                                            *)
(***************************************************************************)
\* the receivers handler h holds on channel c
held(h, c) == Cardinality({r \in receivers(c) : r[1] = h})

\* C18: the step in which a handler fails with a parse or transport error
\* changes that handler alone: every other handler keeps its state and its
\* subscriptions, the listener and run are where they were, the database is
\* unchanged, and each channel loses exactly the receivers of the failed
\* handler and none of its messages.
C18_ErrorIsolation ==
    [][\A h \in Handlers :
          (handlers[h].err = None /\ handlers'[h].err # None) =>
             /\ handlers'[h].pc = "returned"
             /\ \A g \in Handlers \ {h} : handlers'[g] = handlers[g]
             /\ UNCHANGED << dbvars, srvvars >>
             /\ DOMAIN pub_sub' = DOMAIN pub_sub
             /\ \A c \in DOMAIN pub_sub :
                   /\ pub_sub'[c].buffer = pub_sub[c].buffer
                   /\ pub_sub'[c].pos = pub_sub[c].pos
                   /\ pub_sub'[c].rx_cnt = pub_sub[c].rx_cnt - held(h, c)]_vars

\* one connection has failed on a malformed GET after publishing; the other
\* is still subscribed and has been sent the message, and the listener has
\* taken the permit the failed handler returned
C18_Witness ==
    \E h, g \in Clients :
        /\ handlers[h].err = Some(EndOfStream)
        /\ handlers[h].pc = "drop_db"
        /\ handlers[g].err = None
        /\ handlers[g].pc = "sub_select"
        /\ handlers[g].subscriptions # << >>
        /\ handlers[g].out = make_message_frame("a", "m1")
        /\ listener_pc = "accept"
        /\ permits = MAX_CONNECTIONS - Cardinality(Clients)

subscribed(hd) == {hd.subscriptions[i].key : i \in 1 .. Len(hd.subscriptions)}

\* C20: for the channels of a SUBSCRIBE, first or later, the server writes
\* one acknowledgment per channel, in the order requested; each is
\* Array[Bulk("subscribe"), Bulk(channel), Integer(n)] with n the number of
\* channels the connection is subscribed to once that channel is added; and
\* the connection waits for its next frame only when all are written.
C20_SubscribeAcks ==
    /\ [](\A h \in Handlers :
            LET hd == handlers[h]
            IN /\ Len(hd.acked) <= Len(hd.requested)
               /\ \A i \in 1 .. Len(hd.acked) :
                     /\ hd.acked[i].type = "Array"
                     /\ Len(hd.acked[i].items) = 3
                     /\ hd.acked[i].items[1] = Bulk("subscribe")
                     /\ hd.acked[i].items[2] = Bulk(hd.requested[i])
               /\ hd.pc = "sub_select" => Len(hd.acked) = Len(hd.requested))
    /\ [][\A h \in Handlers :
             (handlers'[h].acked # handlers[h].acked /\ handlers'[h].acked # << >>) =>
                LET hd == handlers'[h]
                    channel == hd.requested[Len(hd.acked)]
                IN /\ hd.acked = Append(handlers[h].acked, hd.out)
                   /\ hd.pc = "write"
                   /\ channel \in subscribed(hd)
                   /\ hd.out = Array(<< Bulk("subscribe"), Bulk(channel),
                                        Integer(Cardinality(subscribed(hd))) >>)]_vars

\* subscribed to a, the connection sent SUBSCRIBE a b and got the
\* acknowledgments (a, 1) and (b, 2)
C20_Witness ==
    /\ handlers[Client].pc = "sub_select"
    /\ handlers[Client].frames = 2
    /\ handlers[Client].requested = << "a", "b" >>
    /\ handlers[Client].acked =
          << make_subscribe_frame("a", 1), make_subscribe_frame("b", 2) >>

(***************************************************************************)
(* Claims about UNSUBSCRIBE in subscriber mode                             *)
(***************************************************************************)
\* the channel names of a list of acknowledgments
ack_channels(acks) == {acks[i].items[2] : i \in 1 .. Len(acks)}

\* C21: an UNSUBSCRIBE without channels, read in subscriber mode, removes
\* every channel the connection holds: one unsubscribe frame per held
\* channel, the i-th of n carrying the count n - i, so the counts fall by
\* one down to 0; when no channel is held no frame is written, nothing is
\* dropped and the connection stays in subscriber mode.
C21_UnsubscribeAll ==
    /\ [](\A h \in Handlers :
            LET hd == handlers[h]
                n == Len(hd.unheld)
            IN hd.unrequested = Some(<< >>) =>
                 /\ Len(hd.unacked) <= n
                 /\ \A i \in 1 .. Len(hd.unacked) :
                       hd.unacked[i] = Array(<< Bulk("unsubscribe"), Bulk(hd.unheld[i]),
                                                Integer(n - i) >>)
                 /\ Cardinality(ack_channels(hd.unacked)) = Len(hd.unacked)
                 /\ hd.pc = "sub_select" =>
                       /\ Len(hd.unacked) = n
                       /\ hd.subscriptions = << >>)
    /\ [][\A h \in Handlers :
             (handlers'[h].unrequested = Some(<< >>) /\ handlers'[h].frames # handlers[h].frames) =>
                /\ {handlers'[h].unheld[i] : i \in 1 .. Len(handlers'[h].unheld)}
                      = subscribed(handlers[h])
                /\ Len(handlers'[h].unheld) = Cardinality(subscribed(handlers[h]))
                /\ subscribed(handlers[h]) = {} =>
                      /\ handlers'[h].pc = "sub_select"
                      /\ handlers'[h].out = handlers[h].out
                      /\ pub_sub' = pub_sub]_vars
    /\ [][\A h \in Handlers :
             (handlers[h].unrequested = Some(<< >>) /\ handlers'[h].unacked # handlers[h].unacked
                 /\ handlers'[h].frames = handlers[h].frames) =>
                /\ handlers'[h].pc = "write"
                /\ handlers'[h].unacked = Append(handlers[h].unacked, handlers'[h].out)]_vars

\* holding a and b, the connection sent UNSUBSCRIBE and the frames for a
\* with count 1 and for b with count 0 were written
C21_Witness ==
    /\ handlers[Client].pc = "sub_select"
    /\ handlers[Client].unrequested = Some(<< >>)
    /\ handlers[Client].unacked =
          << make_unsubscribe_frame("a", 1), make_unsubscribe_frame("b", 0) >>

\* C22 as stated: an acknowledgment is written only for a channel that was
\* removed from the connection's subscriptions.
C22_AckOnlyWhenRemoved ==
    [][\A h \in Handlers :
          (handlers'[h].unacked # handlers[h].unacked /\ handlers'[h].unacked # << >>) =>
             Len(handlers'[h].subscriptions) < Len(handlers[h].subscriptions)]_vars

\* C22: for an UNSUBSCRIBE that names channels, one acknowledgment is written
\* per channel named, in the order named, whether or not the connection held
\* it; each carries the number of channels held once that channel is
\* removed, so the count falls by one exactly when the channel was held.
C22_UnsubscribeNamed ==
    /\ [](\A h \in Handlers :
            LET hd == handlers[h]
            IN (hd.unrequested # None /\ hd.unrequested # Some(<< >>)) =>
                 /\ Len(hd.unacked) <= Len(hd.unrequested[1])
                 /\ \A i \in 1 .. Len(hd.unacked) :
                       /\ hd.unacked[i].items[1] = Bulk("unsubscribe")
                       /\ hd.unacked[i].items[2] = Bulk(hd.unrequested[1][i])
                 /\ hd.pc = "sub_select" =>
                       /\ Len(hd.unacked) = Len(hd.unrequested[1])
                       /\ \A i \in 1 .. Len(hd.unrequested[1]) :
                             hd.unrequested[1][i] \notin subscribed(hd))
    /\ [][\A h \in Handlers :
             (handlers[h].unrequested # None /\ handlers[h].unrequested # Some(<< >>)
                 /\ handlers'[h].unacked # handlers[h].unacked
                 /\ handlers'[h].frames = handlers[h].frames) =>
                LET channel == handlers[h].unrequested[1][Len(handlers'[h].unacked)]
                    before == subscribed(handlers[h])
                    after == subscribed(handlers'[h])
                IN /\ handlers'[h].pc = "write"
                   /\ after = before \ {channel}
                   /\ handlers'[h].out = Array(<< Bulk("unsubscribe"), Bulk(channel),
                                                  Integer(Cardinality(after)) >>)
                   /\ handlers'[h].unacked = Append(handlers[h].unacked, handlers'[h].out)]_vars

\* holding only b, the connection sent UNSUBSCRIBE a and was answered with
\* the count 1
C22_Witness ==
    /\ handlers[Client].pc = "sub_select"
    /\ handlers[Client].unrequested = Some(<< "a" >>)
    /\ subscribed(handlers[Client]) = {"b"}
    /\ handlers[Client].unacked = << make_unsubscribe_frame("a", 1) >>

(***************************************************************************)
(* Claims about the frame codec                                            *)
(***************************************************************************)
\* an array that holds an array
nested(frame) ==
    /\ frame.type = "Array"
    /\ \E i \in 1 .. Len(frame.items) : frame.items[i].type = "Array"

\* the text of a Simple or Error frame holds "\r\n"
has_crlf(text) == \E i \in 1 .. Len(text) - 1 : text[i] = "\r" /\ text[i + 1] = "\n"
text_with_crlf(frame) ==
    \/ frame.type = "Simple" /\ has_crlf(frame.text)
    \/ frame.type = "Error" /\ has_crlf(frame.msg)
splits(frame) ==
    \/ text_with_crlf(frame)
    \/ frame.type = "Array" /\ \E i \in 1 .. Len(frame.items) : text_with_crlf(frame.items[i])

\* C23 as stated: whatever frame is given to write_frame, the write
\* completes, the peer's read never fails, the first frame the peer reads is
\* that frame with none of its bytes left over, and the peer reads nothing
\* else before the end of the stream.
C23_RoundTrip ==
    \A h \in Handlers :
       LET wire == handlers[h].wire
       IN /\ wire.w # "panicked"
          /\ wire.r # "read_err"
          /\ wire.received # << >> =>
                /\ wire.received = << wire.sent[1] >>
                /\ wire.buffer = << >> /\ wire.stream = << >>
          /\ (wire.r = "read_none" /\ wire.sent # None) => wire.received # << >>

\* C23: what the codec does.  write_frame panics exactly on an array that
\* holds an array, and then no byte is sent.  For every other frame in which
\* no Simple or Error text holds "\r\n", the peer reads exactly that frame,
\* consuming exactly its bytes, and never fails.  A frame with such a text is
\* not read back: the first frame the peer reads differs from it.
C23_CodecBehaviour ==
    \A h \in Handlers :
       LET wire == handlers[h].wire
       IN wire.sent # None =>
            LET frame == wire.sent[1]
            IN /\ wire.w = "panicked" <=> nested(frame)
               /\ nested(frame) => wire.stream = << >> /\ wire.buffer = << >>
                                      /\ wire.received = << >>
               /\ (~nested(frame) /\ ~splits(frame)) =>
                     /\ wire.r # "read_err"
                     /\ wire.received \in {<< >>, << frame >>}
                     /\ wire.received = << frame >> =>
                           wire.buffer = << >> /\ wire.stream = << >>
                     /\ wire.r = "read_none" => wire.received = << frame >>
               /\ (~nested(frame) /\ splits(frame)) =>
                     /\ wire.received # << >> => wire.received[1] # frame
                     /\ wire.r # "read_none"

\* an array of a Bulk holding "\r\n" and an Integer came back whole
C23_Witness ==
    /\ handlers[Client].wire.r = "read_none"
    /\ handlers[Client].wire.sent = Some(Array(<< Bulk(<< "\r", "\n" >>), Integer(10) >>))
    /\ handlers[Client].wire.received = << Array(<< Bulk(<< "\r", "\n" >>), Integer(10) >>) >>

(***************************************************************************)
(* Claims about the command encoding                                       *)
(***************************************************************************)
\* the command from_frame returned has the fields of the command c
same_fields(c, p) ==
    /\ p.cmd = c.cmd
    /\ c.cmd = "Get" => p.key = c.key
    /\ c.cmd = "Publish" => p.channel = c.channel /\ p.message = c.message
    /\ c.cmd \in {"Subscribe", "Unsubscribe"} => p.channels = c.channels
    /\ c.cmd = "Set" =>
          /\ p.key = c.key /\ p.value = c.value
          /\ (c.expire = None) <=> (p.expire = None)
          /\ c.expire # None => Some(from_millis(p.expire[1])) = c.expire

\* the commands of the command set: a SUBSCRIBE names at least one channel
in_command_set(c) == c.cmd = "Subscribe" => c.channels # << >>
whole_millis(c) == (c.cmd = "Set" /\ c.expire # None) => c.expire[1].nanos = 0

\* C24 as stated: from_frame of the into_frame of any command of the command
\* set, whatever its expiry, gives back a command with the same fields.
C24_RoundTrip ==
    \A h \in Handlers :
       LET cl == handlers[h].client
       IN (cl.parsed # None /\ in_command_set(cl.cmd[1])) => same_fields(cl.cmd[1], cl.parsed[1])

\* C24: from_frame of the into_frame of a GET, a SET without expiry, a SET
\* whose expiry is a whole number of milliseconds, a PUBLISH, a SUBSCRIBE of
\* one or more channels or an UNSUBSCRIBE of any number of channels succeeds
\* and gives back a command with the same fields.  A SET whose expiry has a
\* part below a millisecond comes back with the expiry cut down to whole
\* milliseconds, and a SUBSCRIBE built without a channel is refused.
C24_CommandRoundTrip ==
    \A h \in Handlers :
       LET cl == handlers[h].client
       IN cl.parsed # None =>
            /\ (in_command_set(cl.cmd[1]) /\ whole_millis(cl.cmd[1])) =>
                  same_fields(cl.cmd[1], cl.parsed[1])
            /\ ~whole_millis(cl.cmd[1]) =>
                  /\ cl.parsed[1].cmd = "Set"
                  /\ cl.parsed[1].expire = Some(as_millis(cl.cmd[1].expire[1]))
                  /\ ~same_fields(cl.cmd[1], cl.parsed[1])
            /\ ~in_command_set(cl.cmd[1]) => cl.parsed[1] = ParseErr(EndOfStream)

\* a SET with an expiry of 2 ms came back as it was sent
C24_Witness ==
    /\ handlers[Client].client.cmd =
          Some([cmd |-> "Set", key |-> "k1", value |-> "v1", expire |-> Some(Duration(2, 0))])
    /\ handlers[Client].client.parsed =
          Some([cmd |-> "Set", key |-> "k1", value |-> "v1", expire |-> Some(2)])

(***************************************************************************)
(* Claims about the teardown of the database                               *)
(***************************************************************************)
\* every Db handle is released: only the worker's Arc is left
released == db_strong = 1

\* C25: once every Db handle is released, whichever tasks dropped them and
\* in whatever order their drops interleaved, the shutdown flag is set and
\* the worker has a notification coming or is not waiting, and the worker
\* exits in the end; the flag is not set while another handle is in use.
C25_Teardown ==
    /\ [](released =>
            /\ shutdown
            /\ \/ worker_pc \in {"loop", "purge", "done"}
               \/ pending_notify > 0
               \/ background_task)
    /\ [](shutdown => db_strong <= 2)
    /\ (released ~> worker_pc = "done")

\* both handlers wrote a key with a deadline and dropped their handles, run
\* returned, and the worker has exited with the deadline still in the map
C25_Witness ==
    /\ released
    /\ worker_pc = "done"
    /\ expirations # EmptyMap
    /\ run_pc = "done"
    /\ \A h \in Clients : handlers[h].pc = "dropped" /\ handlers[h].frames > 0


(***************************************************************************)
(* C26.  Subscribers that fall behind a channel                            *)
(***************************************************************************)
\* the receiver of connection h on channel c, when it is in the stream map
receiver_of(h, c) ==
    { i \in 1 .. Len(handlers[h].subscriptions) : handlers[h].subscriptions[i].key = c }

\* the receiver of h on c has missed messages that the channel no longer holds
lagging(h, c) ==
    \E i \in receiver_of(h, c) : handlers[h].subscriptions[i].next < oldest(pub_sub[c])

\* C26: a subscriber that fell more than the channel capacity behind is never
\* ended or failed: the step of its handler that meets the overwritten
\* messages leaves it in subscriber mode with the same subscriptions, the same
\* receiver count on the channel and nothing written, and moves its receiver
\* to the oldest message the channel retains, so that the retained and later
\* messages are delivered in order; a publisher that reads a PUBLISH frame can
\* always complete the send, whatever the positions of the receivers, and the
\* send appends the message to every channel that has a receiver.
C26_LaggingSubscriber ==
    /\ [](\A h \in Subscribers :
            /\ handlers[h].err = None
            /\ handlers[h].pc \in {"select", "subscribe", "insert", "sub_select", "write"})
    /\ [][\A h \in Subscribers :
            (/\ handlers[h].pc = "sub_select"
             /\ \E c \in ChannelNames : lagging(h, c)
             /\ handlers'[h] # handlers[h]
             /\ handlers'[h].last_pos = handlers[h].last_pos)
            => /\ handlers'[h].pc = "sub_select"
               /\ stream_map_keys(handlers'[h].subscriptions)
                    = stream_map_keys(handlers[h].subscriptions)
               /\ pub_sub' = pub_sub
               /\ handlers'[h].out = handlers[h].out
               /\ handlers'[h].frames = handlers[h].frames
               /\ \E c \in ChannelNames :
                    /\ lagging(h, c)
                    /\ \E i \in receiver_of(h, c) :
                         handlers'[h].subscriptions[i].next = oldest(pub_sub[c])]_vars
    /\ [][\A h \in Subscribers, c \in ChannelNames :
            handlers'[h].last_pos[c] # handlers[h].last_pos[c]
            => /\ handlers'[h].last_pos[c] > handlers[h].last_pos[c]
               /\ handlers'[h].last_pos[c] >= oldest(pub_sub[c])
               /\ handlers'[h].last_pos[c] < pub_sub[c].pos
               /\ ~lagging(h, c)]_vars
    /\ []((handlers[Publisher].pc = "select"
            /\ handlers[Publisher].frames < handlers[Publisher].budget)
          => \A c \in ChannelNames, m \in Payloads :
                ENABLED handler_publish(Publisher, c, m))
    /\ [][\A c \in ChannelNames :
            (handlers'[Publisher].frames # handlers[Publisher].frames
                /\ handlers'[Publisher].pc = "write"
                /\ c \in DOMAIN pub_sub
                /\ pub_sub[c].rx_cnt > 0
                /\ pub_sub'[c] # pub_sub[c])
            => /\ pub_sub'[c].pos = pub_sub[c].pos + 1
               /\ pub_sub'[c].rx_cnt = pub_sub[c].rx_cnt
               /\ oldest(pub_sub'[c]) >= pub_sub'[c].pos - ChannelCapacity]_vars

\* a subscriber skipped an overwritten message, was then sent the retained
\* message and a message published after that, and is still subscribed
C26_Witness ==
    \E h \in Subscribers :
        /\ handlers[h].skipped["a"] > 0
        /\ handlers[h].last_pos["a"] = handlers[h].skipped["a"] + 1
        /\ pub_sub["a"].pos = handlers[h].last_pos["a"] + 1
        /\ handlers[h].pc = "sub_select"
        /\ receiver_of(h, "a") # {}
        /\ handlers[h].err = None


(***************************************************************************)
(* C27.  Accept back-off                                                   *)
(***************************************************************************)
\* the waits of one accept step, in the order they are slept
BackoffSleeps == << 1, 2, 4, 8, 16, 32, 64 >>

\* the number of accept failures since the current accept step began
failures == CHOOSE n \in 0 .. Len(BackoffSleeps) :
                backoff = IF n = Len(BackoffSleeps) THEN 2 * BackoffSleeps[n]
                          ELSE BackoffSleeps[n + 1]

\* C27: within one accept step the n-th consecutive failure is followed by a
\* sleep of the n-th of 1, 2, 4, 8, 16, 32, 64 seconds; the failure after the
\* 64-second sleep is returned as an error, which ends the accept loop for
\* good; a successful accept at any point hands over the socket, and the next
\* accept step starts again at 1 second.
C27_AcceptBackoff ==
    /\ [](\E n \in 0 .. Len(BackoffSleeps) :
            backoff = IF n = Len(BackoffSleeps) THEN 2 * BackoffSleeps[n]
                      ELSE BackoffSleeps[n + 1])
    /\ [](listener_pc = "sleep" => failures < Len(BackoffSleeps))
    /\ [](listener_pc = "failed" => failures = Len(BackoffSleeps) /\ run_pc # "select")
    /\ [][(listener_pc = "accept" /\ listener_pc' \in {"sleep", "failed"})
            => /\ backoff' = backoff
               /\ (listener_pc' = "failed") = (failures = Len(BackoffSleeps))
               /\ accepted' = accepted]_vars
    /\ [][(listener_pc = "sleep" /\ listener_pc' # "sleep")
            => /\ listener_pc' \in {"accept", "cancelled"}
               /\ listener_pc' = "accept" => failures' = failures + 1]_vars
    /\ [][listener_pc' = listener_pc => backoff' = backoff]_vars
    /\ [][listener_pc = "failed" => listener_pc' = "failed"]_vars
    /\ [][(listener_pc = "accept" /\ accepted' # accepted)
            => /\ accepted' = accepted + 1
               /\ handlers'[accepted'] = new_handler
               /\ listener_pc' = "acquire"]_vars
    /\ [][(listener_pc # "accept" /\ listener_pc' = "accept" /\ listener_pc # "sleep")
            => failures' = 0]_vars

\* after a socket was accepted, a later accept step failed eight times in a
\* row, slept 64 seconds before the last failure, and returned the error
C27_Witness ==
    /\ listener_pc = "failed"
    /\ backoff = 128
    /\ accepted > 0


(***************************************************************************)
(* C28.  When set() signals the expiration worker                          *)
(***************************************************************************)
\* the key that the SET of this step wrote
set_key == CHOOSE k \in DOMAIN entries' : entries'[k].id = next_id

\* C28: a SET signals the expiration worker exactly when it carries a TTL and
\* either expirations was empty before the SET or the new deadline is
\* strictly earlier than every deadline that expirations held before the SET
\* (the row of the entry being replaced included); a SET without TTL never
\* signals, and a SET signals at most once.
C28_SetSignals ==
    [][next_id' # next_id
        => /\ next_id' = next_id + 1
           /\ \E k \in DOMAIN entries' : entries'[k].id = next_id
           /\ pending_notify' \in {pending_notify, pending_notify + 1}
           /\ (pending_notify' = pending_notify + 1)
                = /\ entries'[set_key].expires_at # None
                  /\ \A row \in DOMAIN expirations :
                        entries'[set_key].expires_at[1] < row[1]
           /\ background_task' = background_task]_vars

\* two SETs with TTL were applied and both signalled: the second because its
\* deadline is strictly earlier than the only deadline that existed
C28_Witness ==
    /\ next_id = 2
    /\ pending_notify = 2
    /\ ~background_task
    /\ worker_pc = "loop"
    /\ \E k1, k2 \in DOMAIN entries :
          /\ entries[k1].id = 0
          /\ entries[k2].id = 1
          /\ entries[k1].expires_at # None
          /\ entries[k2].expires_at # None
          /\ entries[k2].expires_at[1] < entries[k1].expires_at[1]


(***************************************************************************)
(* C29.  No lost wake-up                                                   *)
(***************************************************************************)
\* the worker waits in its select or on notified() alone (db.rs 359-368)
worker_blocked == worker_pc \in {"select", "notified"}

\* a notify_one call is due or its permit is stored
notification_pending == pending_notify > 0 \/ background_task

\* C29: whenever the expiration worker is blocked and the database is not shut
\* down, a notification is pending for it, or it waits on a timer whose
\* instant is not later than any deadline in expirations, or expirations is
\* empty: the worker never sleeps past the earliest deadline.
C29_NoLostWakeup ==
    (worker_blocked /\ ~shutdown)
    => \/ notification_pending
       \/ /\ worker_pc = "select"
          /\ worker_when # None
          /\ \A row \in DOMAIN expirations : worker_when[1] <= row[1]
       \/ DOMAIN expirations = {}

\* the worker sleeps until a deadline whose row an overwrite has removed: a
\* later deadline remains and no notification is pending
C29_Witness ==
    /\ worker_pc = "select"
    /\ ~shutdown
    /\ ~notification_pending
    /\ DOMAIN expirations # {}
    /\ \A row \in DOMAIN expirations : worker_when[1] < row[1]


(***************************************************************************)
(* C30.  Overwrite cancels the previous deadline                           *)
(***************************************************************************)
\* C30: a SET that replaces an entry of k with deadline d1 removes the row
\* (d1, old id) from expirations and leaves k with the new value and id; from
\* then on every row of expirations belongs to the entry stored now, so the
\* worker removes an entry only when that entry's own deadline has been
\* reached: an entry without deadline is never removed, and an entry with a
\* deadline is not removed before it.
C30_OverwriteCancels ==
    /\ [][\A k \in DOMAIN entries :
            (next_id' # next_id /\ k \in DOMAIN entries' /\ entries'[k].id = next_id
                /\ entries[k].expires_at # None)
            => /\ << entries[k].expires_at[1], entries[k].id >> \notin DOMAIN expirations'
               /\ \A row \in DOMAIN expirations' :
                    expirations'[row] = k
                    => row = << entries'[k].expires_at[1], next_id >>
               /\ entries'[k].expires_at = None
                    => \A row \in DOMAIN expirations' : expirations'[row] # k]_vars
    /\ [](\A row \in DOMAIN expirations :
            /\ expirations[row] \in DOMAIN entries
            /\ entries[expirations[row]].id = row[2]
            /\ entries[expirations[row]].expires_at = Some(row[1]))
    /\ [][\A k \in DOMAIN entries :
            k \notin DOMAIN entries'
            => /\ entries[k].expires_at # None
               /\ entries[k].expires_at[1] <= now
               /\ worker_pc = "purge"]_vars
    /\ [][\A k \in DOMAIN entries :
            (k \in DOMAIN entries' /\ entries'[k] # entries[k])
            => /\ entries'[k].id = next_id
               /\ next_id' = next_id + 1]_vars

\* k1 was set with a deadline and then overwritten without one; the old
\* deadline has passed, the worker is about to wake for it, and k1 is stored
\* with no row left in expirations
C30_Witness ==
    /\ next_id = 2
    /\ applied["k2"] = None
    /\ "k1" \in DOMAIN entries
    /\ entries["k1"].id = 1
    /\ entries["k1"].expires_at = None
    /\ DOMAIN expirations = {}
    /\ worker_pc = "select"
    /\ worker_when # None
    /\ now >= worker_when[1]


(***************************************************************************)
(* C31.  One purge pass                                                    *)
(***************************************************************************)
\* the entry stored under k has a deadline that instant t has reached
due(ents, k, t) == ents[k].expires_at # None /\ ents[k].expires_at[1] <= t

\* C31: one purge pass of the worker, with the database not shut down,
\* removes exactly the entries whose deadline is not later than now together
\* with their rows of expirations, keeps every entry with a later deadline or
\* without deadline unchanged, and returns the smallest remaining deadline,
\* if any, which the worker then sleeps until; so an entry set with a TTL of
\* 0 is gone after the first pass that follows the SET.
C31_PurgePass ==
    /\ [][(worker_pc = "purge" /\ worker_pc' # "purge" /\ ~shutdown)
            => /\ DOMAIN entries' = {k \in DOMAIN entries : ~due(entries, k, now)}
               /\ \A k \in DOMAIN entries' : entries'[k] = entries[k]
               /\ DOMAIN expirations' = {row \in DOMAIN expirations : row[1] > now}
               /\ \A row \in DOMAIN expirations' : expirations'[row] = expirations[row]
               /\ IF DOMAIN expirations' = {}
                  THEN worker_when' = None /\ worker_pc' = "notified"
                  ELSE /\ worker_when' # None
                       /\ \E row \in DOMAIN expirations' : row[1] = worker_when'[1]
                       /\ \A row \in DOMAIN expirations' : worker_when'[1] <= row[1]
                       /\ worker_pc' = "select"
               /\ now' = now]_vars
    /\ [][(worker_pc = "purge" /\ worker_pc' # "purge" /\ ~shutdown)
            => \A k \in DOMAIN entries' : ~due(entries', k, now')]_vars

\* k1 was set with a TTL of 0 at instant 0 and the pass that ran after the SET,
\* still at instant 0, removed it; k2, set without TTL, is kept
C31_Witness ==
    /\ now = 0
    /\ applied["k1"] # None
    /\ "k1" \notin DOMAIN entries
    /\ "k2" \in DOMAIN entries
    /\ entries["k2"].expires_at = None
    /\ DOMAIN expirations = {}
    /\ worker_pc = "notified"


(***************************************************************************)
(* C32.  Frames of one connection are written one after another            *)
(***************************************************************************)
\* replies of the command read last are still to be produced
replies_pending(hd) ==
    hd.channels # << >> \/ hd.new_rx # None \/ hd.unsub # << >>

\* C32: on every connection a frame that is produced is written before the
\* handler does anything else: while a write is in progress the connection
\* neither reads a frame nor starts another frame, so frames go out in the
\* order they are produced and are never interleaved; and the handler reads
\* the next frame only from its select, when every reply frame of the command
\* before it (every SUBSCRIBE and UNSUBSCRIBE acknowledgment) has been written
\* and no write is in progress.
C32_WritesInOrder ==
    /\ [][\A h \in Writers \cup {Publisher} :
            (handlers[h].pc = "write" /\ handlers'[h] # handlers[h])
            => handlers'[h] = [handlers[h] EXCEPT !.pc = handlers[h].wnext]]_vars
    /\ [][\A h \in Writers \cup {Publisher} :
            handlers'[h].out # handlers[h].out
            => /\ handlers[h].pc # "write"
               /\ handlers'[h].pc = "write"]_vars
    /\ [][\A h \in Writers \cup {Publisher} :
            handlers'[h].frames # handlers[h].frames
            => /\ handlers[h].pc \in {"select", "sub_select"}
               /\ ~replies_pending(handlers[h])
               /\ Len(handlers[h].acked) = Len(handlers[h].requested)
               /\ handlers[h].unrequested # None
                    => Len(handlers[h].unacked)
                         = IF handlers[h].unrequested[1] = << >>
                           THEN Len(handlers[h].unheld)
                           ELSE Len(handlers[h].unrequested[1])]_vars
    /\ [](\A h \in Writers \cup {Publisher} :
            handlers[h].pc \in {"select", "sub_select"} => ~replies_pending(handlers[h]))
    /\ [](\A h \in Writers \cup {Publisher} :
            (handlers[h].pc = "write" /\ replies_pending(handlers[h]))
            => handlers[h].wnext \in {"subscribe", "unsubscribe"})

\* the first acknowledgment of SUBSCRIBE a b is being written while a message
\* published on a already waits in the new receiver and the acknowledgment
\* of b is still to be produced
C32_Witness ==
    \E h \in Writers :
        /\ handlers[h].pc = "write"
        /\ handlers[h].out = make_subscribe_frame("a", 1)
        /\ handlers[h].channels = << "b" >>
        /\ handlers[h].requested = << "a", "b" >>
        /\ "a" \in DOMAIN pub_sub
        /\ pub_sub["a"].pos > 0
        /\ \E i \in receiver_of(h, "a") : handlers[h].subscriptions[i].next < pub_sub["a"].pos


(***************************************************************************)
(* C33.  The mutex is never held at a suspension point                     *)
(***************************************************************************)
\* the handler awaits a socket read, the shutdown bus or a broadcast
\* receiver (its select), or a socket write
suspended(hd) == hd.pc \in {"select", "sub_select", "write"}

\* C33: no task holds the mutex of the database state at a suspension point:
\* a handler that waits in its select (socket read, shutdown bus, broadcast
\* receivers) or on a socket write does not hold the guard, and neither does
\* the worker while it waits on its timer or its notifier; a SET has released
\* the guard when its notify_one becomes due, and the guard is only ever
\* given up by the task that holds it, at the end of the locked function.
C33_NoLockAcrossAwait ==
    /\ [](\A h \in LockClients : suspended(handlers[h]) => mutex # Some(h))
    /\ [](worker_blocked => mutex # Some(Worker))
    /\ [](mutex \in {None, Some(Worker)} \cup {Some(h) : h \in LockClients})
    /\ [](\A h \in LockClients : mutex = Some(h) <=> handlers[h].pc = "locked")
    /\ [][pending_notify' > pending_notify => (mutex # None /\ mutex' = None)]_vars
    /\ [][(mutex # None /\ mutex' # mutex)
            => /\ mutex' = None
               /\ \/ mutex = Some(Worker) /\ worker_pc' # worker_pc
                  \/ \E h \in LockClients : mutex = Some(h) /\ handlers'[h].pc # "locked"]_vars
    /\ [][(mutex = None /\ mutex' # None)
            => \/ mutex' = Some(Worker) /\ worker_pc \in {"loop", "purge"}
               \/ \E h \in LockClients : mutex' = Some(h) /\ handlers[h].pc = "db"]_vars

\* the worker holds the guard inside purge_expired_keys while one handler is
\* blocked in lock() and the other waits on a socket write
C33_Witness ==
    /\ mutex = Some(Worker)
    /\ worker_pc = "purge"
    /\ \E h1, h2 \in LockClients :
          /\ handlers[h1].pc = "db"
          /\ handlers[h2].pc = "write"

(***************************************************************************)
(* Handles of the database: the listener's handle is cloned for every      *)
(* accepted connection (server.rs 262), handlers end by EOF or by shutdown *)
(* and drop their handles in any order; run ends by the shutdown signal or *)
(* by the error of accept and drops the listener's.                        *)
(***************************************************************************)
NextHandles ==
    \/ listener_acquire
    \/ accept_ok
    \/ accept_err
    \/ accept_sleep
    \/ \E h \in Handlers : handler_eof(h)
    \/ \E h \in Handlers : handler_shutdown_recv(h)
    \/ \E h \in Handlers : handler_drop(h)
    \/ \E h \in Handlers : handler_drop_db(h)
    \/ \E h \in Handlers : handler_drop_arc(h)
    \/ \E h \in Handlers : handler_drop_tx(h)
    \/ shutdown_signal
    \/ run_drop_notify_shutdown
    \/ run_drop_shutdown_complete_tx
    \/ run_shutdown_complete_rx
    \/ run_drop_db
    \/ run_return
    \/ notify_one
    \/ worker_is_shutdown
    \/ worker_purge
    \/ worker_notified

SpecHandles == Init /\ [][NextHandles]_vars

\* a Db handle whose Drop::drop has not run yet
handle_live(h) == handlers[h].pc \notin {"none", "drop_arc", "drop_tx", "dropped"}
listener_handle_live == run_pc \notin {"drop_arc", "done"}

\* C34: while a Db handle is live (its Drop has not run), whatever clones
\* and drops came before, the shutdown flag is false and the worker has not
\* terminated; the worker terminates only on reading the flag as set.
C34_WorkerOutlivesHandles ==
    /\ []((listener_handle_live \/ \E h \in Handlers : handle_live(h)) =>
            (~shutdown /\ worker_pc # "done"))
    /\ [][(worker_pc' = "done" /\ worker_pc # "done") => shutdown]_vars
    /\ [][(shutdown' /\ ~shutdown) =>
            /\ db_strong = 2
            /\ ~listener_handle_live'
            /\ \A h \in Handlers : ~handle_live(h)']_vars

\* every accepted connection has dropped its handle, in an order other than
\* the order of the clones, and the listener's handle is the one left
C34_Witness ==
    /\ accepted = MaxAccepts
    /\ \A h \in 1..MaxAccepts : handlers[h].pc = "dropped"
    /\ listener_handle_live
    /\ db_strong = 2
    /\ ~shutdown
    /\ worker_pc = "notified"

(***************************************************************************)
(* End of stream: the peer writes the bytes of up to MaxPeerFrames frames, *)
(* all of them or only the first cut bytes, and closes the socket;         *)
(* Connection::read_frame (connection.rs 55-78) reads them in pieces and   *)
(* Handler::run (server.rs 349-368) acts on what it returns.               *)
(***************************************************************************)
EofFrames ==
    { Simple(<< "O", "K" >>), Bulk(<< "\r", "\n" >>), Array(<< Bulk(<< "O", "K" >>) >>) }
MaxPeerFrames == 2
PeerFrames == UNION {[1 .. n -> EofFrames] : n \in 0 .. MaxPeerFrames}

RECURSIVE encode_frames(_)
encode_frames(frames) ==
    IF frames = << >> THEN << >>
    ELSE encode_frame(Head(frames)).bytes \o encode_frames(Tail(frames))

\* the peer's writes reach the socket up to byte cut, then the socket closes
peer_close(h, frames, cut) ==
    /\ handlers[h].wire.w = "write_frame"
    /\ cut \in 0 .. Len(encode_frames(frames))
    /\ handlers' = [handlers EXCEPT ![h].wire =
          [@ EXCEPT !.w = "flushed", !.peer = frames, !.cut = cut,
                    !.stream = SubSeq(encode_frames(frames), 1, cut)]]
    /\ UNCHANGED << dbvars, psvars, srvvars >>

\* server.rs 351, 365-368: read_frame has returned None and run returns
\* Ok(()), or it has returned Err and `?` ends run with that error
handler_read_frame_end(h) ==
    /\ handlers[h].pc = "select"
    /\ handlers[h].wire.r \in {"read_none", "read_err"}
    /\ handlers' = [handlers EXCEPT
          ![h].pc = "returned",
          ![h].err = IF handlers[h].wire.r = "read_err"
                     THEN Some(handlers[h].wire.err) ELSE None]
    /\ UNCHANGED << dbvars, psvars, srvvars >>

NextEof ==
    \/ \E frames \in PeerFrames : \E cut \in 0 .. Len(encode_frames(frames)) :
          peer_close(Client, frames, cut)
    \/ \E n \in 1 .. MaxChunk : read_buf(Client, n)
    \/ read_frame_some(Client)
    \/ read_frame_eof(Client)
    \/ handler_read_frame_end(Client)

SpecEof == InitProtocol /\ [][NextEof]_vars

\* the frames whose bytes arrived whole before the socket closed
whole_frames(wire) ==
    LET ks == {k \in 0 .. Len(wire.peer) :
                  Len(encode_frames(SubSeq(wire.peer, 1, k))) <= wire.cut}
    IN SubSeq(wire.peer, 1, CHOOSE k \in ks : \A j \in ks : j <= k)
ends_on_boundary(wire) == Len(encode_frames(whole_frames(wire))) = wire.cut

\* C35: at end of stream read_frame returns None when the buffer is empty,
\* and the handler then returns without error; it fails with "connection
\* reset by peer" when the buffer holds part of a frame; the whole frames
\* that arrived are returned first in both cases.
C35_EndOfStream ==
    \A h \in {Client} :
       LET wire == handlers[h].wire
       IN /\ wire.r = "read_none" =>
               /\ wire.buffer = << >>
               /\ ends_on_boundary(wire)
               /\ wire.received = whole_frames(wire)
          /\ wire.r = "read_err" =>
               /\ wire.err = "connection reset by peer"
               /\ wire.buffer # << >>
               /\ ~ends_on_boundary(wire)
               /\ wire.received = whole_frames(wire)
          /\ handlers[h].pc = "returned" =>
               /\ wire.r \in {"read_none", "read_err"}
               /\ handlers[h].err = None <=> wire.r = "read_none"

\* both outcomes after a whole frame was returned
C35_Witness ==
    /\ handlers[Client].pc = "returned"
    /\ handlers[Client].err = Some("connection reset by peer")
    /\ Len(handlers[Client].wire.received) = 1
    /\ Len(handlers[Client].wire.peer) = 2

C35_WitnessNone ==
    /\ handlers[Client].pc = "returned"
    /\ handlers[Client].err = None
    /\ Len(handlers[Client].wire.received) = 2

\* the number of the attempt the accept step is making or has just made:
\* backoff doubles after every failed attempt but the last (server.rs 305,
\* 324-327)
attempt == CHOOSE n \in 1 .. 8 : 2 ^ (n - 1) = backoff
accept_fails == listener_pc = "accept" /\ listener_pc' \in {"sleep", "failed"}

registered(hd, c) ==
    \/ c \in subscribed(hd)
    \/ hd.new_rx # None /\ hd.new_rx[1].key = c
subscription(hd, c) ==
    IF c \in subscribed(hd) THEN hd.subscriptions[index_of(hd.subscriptions, c)]
    ELSE hd.new_rx[1]
\* the messages published on c since the registration that hd has not been
\* sent yet
owed(hd, ps, c) == ps[c].pos - subscription(hd, c).next
\* the position every position count starts from when the channel is new
tail(ps, c) == IF c \in DOMAIN ps THEN ps[c].pos ELSE 0

delivers(h, c) ==
    /\ handlers[h].pc = "sub_select"
    /\ handlers'[h].pc = "write"
    /\ handlers'[h].last_pos[c] = subscription(handlers[h], c).next
    /\ owed(handlers'[h], pub_sub', c) = owed(handlers[h], pub_sub, c) - 1
    /\ \E m \in Payloads : handlers'[h].out = make_message_frame(c, m)
skips(h, c) == handlers'[h].skipped[c] > handlers[h].skipped[c]
registers_again(h, c) ==
    /\ handlers[h].pc = "insert"
    /\ handlers[h].new_rx[1].key = c
    /\ c \in subscribed(handlers[h])

\* C37 as claimed: from the registration on, every message published on the
\* channel stays owed to the connection until it is written to it (or the
\* connection has lagged past it); no acknowledgment of the SUBSCRIBE comes
\* after such a message.
C37_NothingLostAfterRegistration ==
    [][\A h \in Writers, c \in ChannelNames :
          (/\ registered(handlers[h], c)
           /\ registered(handlers'[h], c)
           /\ owed(handlers'[h], pub_sub', c) < owed(handlers[h], pub_sub, c))
          => (delivers(h, c) \/ skips(h, c))]_vars

\* C37: a receiver starts at the position the next publish will get, so
\* nothing published earlier is replayed; a message frame is written only
\* from the select, when every acknowledgment of the SUBSCRIBE has been
\* written; a message published between registration and acknowledgment
\* goes with the receiver into the StreamMap and is written afterwards.  A
\* message owed to the connection is dropped undelivered only when the
\* connection lags past it or when a SUBSCRIBE names a channel it already
\* holds: the new receiver replaces the old one with what that one held.
C37_SubscriptionStart ==
    /\ [][\A h \in Writers :
            (handlers[h].pc = "subscribe" /\ handlers'[h].pc = "insert")
            => LET c == Head(handlers[h].channels)
               IN /\ handlers'[h].new_rx = Some([key |-> c, next |-> tail(pub_sub, c)])
                  /\ pub_sub'[c].pos = tail(pub_sub, c)]_vars
    /\ [][\A h \in Writers :
            (handlers[h].pc = "insert" /\ handlers'[h].pc # "insert")
            => LET c == handlers[h].new_rx[1].key
               IN /\ subscription(handlers'[h], c) = handlers[h].new_rx[1]
                  /\ handlers'[h].pc = "write"
                  /\ handlers'[h].out = make_subscribe_frame(c, Len(handlers'[h].subscriptions))]_vars
    /\ [][\A h \in Writers, c \in ChannelNames, m \in Payloads :
            (handlers'[h].out = make_message_frame(c, m) /\ handlers'[h].pc = "write"
               /\ handlers[h].pc # "write")
            => /\ handlers[h].pc = "sub_select"
               /\ ~replies_pending(handlers[h])
               /\ Len(handlers[h].acked) = Len(handlers[h].requested)
               /\ subscription(handlers[h], c).next < pub_sub[c].pos
               /\ m = pub_sub[c].buffer[subscription(handlers[h], c).next
                                          - oldest(pub_sub[c]) + 1]]_vars
    /\ [][\A h \in Writers, c \in ChannelNames :
            (/\ registered(handlers[h], c)
             /\ registered(handlers'[h], c)
             /\ owed(handlers'[h], pub_sub', c) < owed(handlers[h], pub_sub, c))
            => (delivers(h, c) \/ skips(h, c) \/ registers_again(h, c))]_vars
    /\ [](\A h \in Writers, c \in ChannelNames :
            registered(handlers[h], c) => owed(handlers[h], pub_sub, c) >= 0)

\* both acknowledgments of SUBSCRIBE a b are out, the second still being
\* written, and a message published after each registration waits
C37_Witness ==
    \E h \in Writers :
        /\ handlers[h].pc = "write"
        /\ handlers[h].out = make_subscribe_frame("b", 2)
        /\ handlers[h].wnext = "sub_select"
        /\ owed(handlers[h], pub_sub, "a") = 1
        /\ owed(handlers[h], pub_sub, "b") = 1

\* SUBSCRIBE a arrives on a connection that holds a and is owed a message
C37_Resubscribed ==
    \E h \in Writers :
        /\ registers_again(h, "a")
        /\ owed(handlers[h], pub_sub, "a") > 0

(***************************************************************************)
(* C38.  No handler after the accept loop has ended                        *)
(***************************************************************************)
spawned == {h \in Handlers : handlers[h].pc # "none"}
accept_loop_ended == run_pc # "select"

\* C38: once run has left its select, by the shutdown signal or by the
\* error of accept, the accept loop is cancelled or failed for good: no
\* connection is accepted, no handler is spawned, and no Db handle, shutdown
\* receiver or completion sender is created, so the handlers the completion
\* wait covers are those spawned before; each was spawned while the shutdown
\* sender was alive, and the senders the wait counts are the listener's and
\* theirs.
C38_NoHandlerAfterShutdown ==
    /\ [](accept_loop_ended => listener_pc \in {"cancelled", "failed"})
    /\ [][accept_loop_ended =>
            /\ accept_loop_ended'
            /\ listener_pc' = listener_pc
            /\ accepted' = accepted
            /\ spawned' = spawned
            /\ tx_count' <= tx_count
            /\ db_strong' <= db_strong]_vars
    /\ [][spawned' # spawned =>
            /\ ~accept_loop_ended
            /\ notify_shutdown
            /\ listener_pc = "accept"
            /\ spawned' = spawned \cup {accepted'}
            /\ accepted' = accepted + 1
            /\ handlers'[accepted'] = new_handler
            /\ tx_count' = tx_count + 1
            /\ db_strong' = db_strong + 1]_vars
    /\ [][~notify_shutdown' => (accept_loop_ended /\ spawned' = spawned)]_vars
    /\ [](spawned = 1 .. accepted)
    /\ [](tx_count = Cardinality({h \in spawned : handlers[h].pc # "dropped"})
                       + (IF run_pc \in {"select", "drop_notify", "drop_tx"} THEN 1 ELSE 0))

\* the signal arrived while accept was backing off after a connection was
\* accepted; the completion wait is over with that one handler
C38_Witness ==
    /\ listener_pc = "cancelled"
    /\ backoff > 1
    /\ run_pc = "drop_db"
    /\ accepted = 1
    /\ handlers[1].pc = "dropped"
    /\ handlers[1].shutdown

(***************************************************************************)
(* Client::subscribe, Subscriber::subscribe and Subscriber::unsubscribe    *)
(* (client.rs 269-316, 391-449) against Subscribe::apply: one connection,  *)
(* its peer makes up to MaxCalls calls, one after the other.               *)
(***************************************************************************)
MaxCalls == 3

\* Vec::retain(|c| *channel != &c[..]) (client.rs 432)
RECURSIVE retain_other(_, _)
retain_other(list, channel) ==
    IF list = << >> THEN << >>
    ELSE IF Head(list) = channel THEN retain_other(Tail(list), channel)
    ELSE << Head(list) >> \o retain_other(Tail(list), channel)

\* client.rs 269-279 and 282-290: SUBSCRIBE is written, then one response
\* per channel of the call is awaited
client_subscribe(h, channels) ==
    /\ handlers[h].subscriber.state = "idle"
    /\ handlers[h].subscriber.calls = 0
    /\ handlers' = [handlers EXCEPT ![h].subscriber =
          [@ EXCEPT !.state = "waiting", !.fn = "Client::subscribe",
                    !.channels = channels, !.num = Len(channels), !.got = 0,
                    !.calls = 1]]
    /\ UNCHANGED << dbvars, psvars, srvvars >>

\* client.rs 391-398 with 282-290
subscriber_subscribe(h, channels) ==
    /\ handlers[h].subscriber.state = "idle"
    /\ handlers[h].subscriber.calls \in 1 .. (MaxCalls - 1)
    /\ handlers[h].subscriber.calls = handlers[h].frames
    /\ handlers' = [handlers EXCEPT ![h].subscriber =
          [@ EXCEPT !.state = "waiting", !.fn = "Subscriber::subscribe",
                    !.channels = channels, !.num = Len(channels), !.got = 0,
                    !.calls = @ + 1]]
    /\ UNCHANGED << dbvars, psvars, srvvars >>

\* client.rs 404-419: UNSUBSCRIBE is written; the number of responses to
\* wait for is that of the channels named, or of the subscribed channels
\* when none is named; with nothing to wait for the call returns Ok
subscriber_unsubscribe(h, channels) ==
    /\ handlers[h].subscriber.state = "idle"
    /\ handlers[h].subscriber.calls \in 1 .. (MaxCalls - 1)
    /\ handlers[h].subscriber.calls = handlers[h].frames
    /\ LET num == IF channels = << >>
                  THEN Len(handlers[h].subscriber.subscribed_channels)
                  ELSE Len(channels)
       IN handlers' = [handlers EXCEPT ![h].subscriber =
             [@ EXCEPT !.state = IF num = 0 THEN "idle" ELSE "waiting",
                       !.fn = "Subscriber::unsubscribe",
                       !.channels = channels, !.num = num, !.got = 0,
                       !.calls = @ + 1]]
    /\ UNCHANGED << dbvars, psvars, srvvars >>

\* the handler reads the frame the peer wrote for its latest call
serve_call(h) ==
    /\ handlers[h].subscriber.calls = handlers[h].frames + 1
    /\ LET sub == handlers[h].subscriber
       IN \/ sub.fn = "Client::subscribe" /\ handler_subscribe(h, sub.channels)
          \/ sub.fn = "Subscriber::subscribe" /\ sub_subscribe(h, sub.channels)
          \/ sub.fn = "Subscriber::unsubscribe" /\ sub_unsubscribe(h, sub.channels)

\* the acknowledgments the handler has written out whole for the command it
\* read last
written_acks(hd) ==
    LET acks == IF hd.subscriber.fn = "Subscriber::unsubscribe" THEN hd.unacked
                ELSE hd.acked
    IN IF hd.subscriber.calls # hd.frames THEN << >>
       ELSE IF hd.pc = "write" THEN SubSeq(acks, 1, Len(acks) - 1)
       ELSE acks

subscribe_response_mut(sub, frame) ==
    IF frame.items[1] = Bulk("subscribe") /\ frame.items[2] = Bulk(sub.channels[sub.got + 1])
    THEN IF sub.got + 1 < sub.num THEN [sub EXCEPT !.got = @ + 1]
         ELSE [sub EXCEPT !.got = @ + 1, !.state = "idle",
                          !.subscribed_channels = sub.channels]
    ELSE [sub EXCEPT !.state = "failed"]

\* client.rs 293-312: the response must be [subscribe, channel, ..] for the
\* channel of this turn of the loop; after the last one Client::subscribe
\* builds the Subscriber with the channels of the call and
\* Subscriber::subscribe extends its list with them
subscribe_response(sub, frame) ==
    IF frame.items[1] = Bulk("subscribe") /\ frame.items[2] = Bulk(sub.channels[sub.got + 1])
    THEN IF sub.got + 1 < sub.num THEN [sub EXCEPT !.got = @ + 1]
         ELSE [sub EXCEPT !.got = @ + 1, !.state = "idle",
                          !.subscribed_channels =
                              IF sub.fn = "Client::subscribe" THEN sub.channels
                              ELSE @ \o sub.channels]
    ELSE [sub EXCEPT !.state = "failed"]

\* client.rs 421-446: the response must be [unsubscribe, channel, ..] and
\* must take exactly one entry out of subscribed_channels
unsubscribe_response(sub, frame) ==
    IF frame.items[1] # Bulk("unsubscribe") THEN [sub EXCEPT !.state = "failed"]
    ELSE IF Len(sub.subscribed_channels) = 0 THEN [sub EXCEPT !.state = "failed"]
    ELSE LET kept == retain_other(sub.subscribed_channels, frame.items[2].data)
         IN IF Len(kept) # Len(sub.subscribed_channels) - 1
            THEN [sub EXCEPT !.subscribed_channels = kept, !.state = "failed"]
            ELSE [sub EXCEPT !.subscribed_channels = kept, !.got = @ + 1,
                             !.state = IF sub.got + 1 < sub.num THEN "waiting" ELSE "idle"]

\* Client::read_response (client.rs 321-338) returns the next frame the
\* handler has written
read_response(h) ==
    /\ handlers[h].subscriber.state = "waiting"
    /\ handlers[h].subscriber.got < Len(written_acks(handlers[h]))
    /\ LET sub == handlers[h].subscriber
           frame == written_acks(handlers[h])[sub.got + 1]
       IN handlers' = [handlers EXCEPT ![h].subscriber =
             IF sub.fn = "Subscriber::unsubscribe" THEN unsubscribe_response(sub, frame)
             ELSE subscribe_response(sub, frame)]
    /\ UNCHANGED << dbvars, psvars, srvvars >>

InitClient ==
    /\ InitDb
    /\ handlers = [h \in Handlers |->
          IF h = Client THEN [new_handler EXCEPT !.budget = MaxCalls] ELSE no_handler]
    /\ run_pc = "select"
    /\ listener_pc = "acquire"
    /\ backoff = 1
    /\ permits = MAX_CONNECTIONS - 1
    /\ notify_shutdown = TRUE
    /\ tx_count = 2
    /\ db_strong = 3
    /\ accepted = 1

NextClient ==
    \/ \E channels \in ChannelLists(1) : client_subscribe(Client, channels)
    \/ \E channels \in ChannelLists(1) : subscriber_subscribe(Client, channels)
    \/ \E channels \in ChannelLists(0) : subscriber_unsubscribe(Client, channels)
    \/ serve_call(Client)
    \/ subscribe_to_channel_db(Client)
    \/ subscribe_to_channel_insert(Client)
    \/ unsubscribe_channel(Client)
    \/ write_frame_done(Client)
    \/ read_response(Client)

SpecClient == InitClient /\ [][NextClient]_vars

(***************************************************************************)
(* C39.  What the client and the server each take the subscriptions to be  *)
(***************************************************************************)
channel_set(list) == {list[i] : i \in 1 .. Len(list)}
\* the handler has read the latest call's frame and written all its replies
served(hd) ==
    /\ hd.subscriber.calls = hd.frames
    /\ hd.pc \in {"select", "sub_select"}
    /\ ~replies_pending(hd)
\* the number of acknowledgments the handler writes for the command it read
acks_sent(hd) ==
    IF hd.subscriber.fn = "Subscriber::unsubscribe"
    THEN IF hd.unrequested[1] = << >> THEN Len(hd.unheld) ELSE Len(hd.unrequested[1])
    ELSE Len(hd.requested)

\* C39 as claimed: for any channel lists every call completes, the client
\* waiting for exactly as many acknowledgments as the server sends, and
\* after it the client's subscribed_channels has the channels of the
\* server's subscription map.
C39_ClientServerAgree ==
    \A h \in {Client} :
       LET hd == handlers[h]
       IN /\ hd.subscriber.state # "failed"
          /\ (hd.subscriber.calls > 0 /\ hd.subscriber.calls = hd.frames)
               => hd.subscriber.num = acks_sent(hd)
          /\ (hd.subscriber.state = "idle" /\ served(hd))
               => channel_set(hd.subscriber.subscribed_channels) = subscribed(hd)

\* C39: after a call that returned Ok the client's subscribed_channels has
\* the channels of the server's subscription map, and the client has read
\* every acknowledgment the server wrote for it.  A subscribe call waits for
\* as many acknowledgments as the server sends and never fails on them.  An
\* unsubscribe call fails on the acknowledgment of a channel that is not
\* exactly once in subscribed_channels, and with no channel named it waits
\* for more acknowledgments than the server sends when a name is twice in
\* subscribed_channels.
C39_ClientAndServer ==
    /\ [](\A h \in {Client} :
            LET hd == handlers[h]
            IN /\ (hd.subscriber.state = "idle" /\ served(hd))
                    => /\ channel_set(hd.subscriber.subscribed_channels) = subscribed(hd)
                       /\ hd.subscriber.calls > 0
                            => /\ hd.subscriber.got = hd.subscriber.num
                               /\ hd.subscriber.num = acks_sent(hd)
               /\ (hd.subscriber.calls > 0 /\ hd.subscriber.calls = hd.frames
                     /\ hd.subscriber.fn # "Subscriber::unsubscribe")
                    => hd.subscriber.num = acks_sent(hd)
               /\ (hd.subscriber.calls > 0 /\ hd.subscriber.calls = hd.frames
                     /\ hd.subscriber.fn = "Subscriber::unsubscribe")
                    => /\ hd.subscriber.num >= acks_sent(hd)
                       /\ hd.subscriber.channels # << >> => hd.subscriber.num = acks_sent(hd)
               /\ hd.subscriber.state = "failed"
                    => hd.subscriber.fn = "Subscriber::unsubscribe")
    /\ [][\A h \in {Client} :
            (handlers[h].subscriber.state = "waiting" /\ handlers'[h].subscriber.state = "failed")
            => LET sub == handlers[h].subscriber
                   name == written_acks(handlers[h])[sub.got + 1].items[2].data
               IN Cardinality({i \in 1 .. Len(sub.subscribed_channels) :
                                  sub.subscribed_channels[i] = name}) # 1]_vars
    /\ [][\A h \in {Client} :
            (handlers[h].subscriber.state = "waiting"
               /\ handlers'[h].subscriber.got = handlers[h].subscriber.got + 1
               /\ handlers[h].subscriber.fn = "Subscriber::unsubscribe")
            => LET sub == handlers[h].subscriber
                   name == written_acks(handlers[h])[sub.got + 1].items[2].data
               IN Cardinality({i \in 1 .. Len(sub.subscribed_channels) :
                                  sub.subscribed_channels[i] = name}) = 1]_vars

\* Client::subscribe(a, a) returned Ok and unsubscribe() with no channel
\* waits for two acknowledgments where the server sends one
C39_Witness ==
    /\ handlers[Client].subscriber.fn = "Subscriber::unsubscribe"
    /\ handlers[Client].subscriber.channels = << >>
    /\ handlers[Client].subscriber.num = 2
    /\ served(handlers[Client])
    /\ acks_sent(handlers[Client]) = 1
    /\ handlers[Client].subscriber.state = "failed"

(***************************************************************************)
(* C40.  The listener's handle is the last                                 *)
(***************************************************************************)
\* a handler whose db field has not been released yet (server.rs 74-80)
handler_holds_db(h) == handlers[h].pc \notin {"none", "drop_tx", "dropped"}
\* a handler whose _shutdown_complete has not been released yet (server.rs 114)
handler_holds_tx(h) == handlers[h].pc \notin {"none", "dropped"}

\* C40: a handler releases its Db handle before its completion sender, so
\* when the completion wait of run is over no handler holds a Db handle; the
\* Drop of the listener's handle then reads a count of 2, its own and the
\* worker's, and it is this Drop and no other that sets the shutdown flag.
C40_ListenerHandleLast ==
    /\ [](\A h \in Handlers : handler_holds_db(h) => handler_holds_tx(h))
    /\ [][\A h \in Handlers :
            (handler_holds_tx(h) /\ ~handler_holds_tx(h)') => ~handler_holds_db(h)]_vars
    /\ [](db_strong = 1 + (IF run_pc # "done" THEN 1 ELSE 0)
                        + Cardinality({h \in Handlers : handler_holds_db(h)}))
    /\ [](run_pc \in {"drop_db", "drop_arc", "done"}
            => \A h \in Handlers : ~handler_holds_db(h))
    /\ [][(run_pc = "drop_db" /\ run_pc' # "drop_db")
            => /\ db_strong = 2
               /\ ~shutdown
               /\ shutdown'
               /\ pending_notify' = pending_notify + 1]_vars
    /\ [][(shutdown' /\ ~shutdown) => run_pc = "drop_db"]_vars
    /\ [](run_pc = "done" => (shutdown /\ db_strong = 1))

\* the listener's Drop has set the flag after a handler that ended by EOF and
\* one that ended by shutdown released theirs
C40_Witness ==
    /\ run_pc = "drop_arc"
    /\ shutdown
    /\ db_strong = 2
    /\ \E h1, h2 \in Handlers :
          /\ handlers[h1].pc = "dropped" /\ handlers[h1].shutdown
          /\ handlers[h2].pc = "dropped" /\ ~handlers[h2].shutdown

====
